---- MODULE Spec2Model ----
(***************************************************************************)
(* Model of the request pipeline of bitbucket-mcp:                         *)
(*   - parseAPIError and the error classes        (utils/errors)           *)
(*   - BitbucketClient.request / executeWithRetry (api/client)             *)
(*   - OAuth2AuthProvider                         (auth/oauth2)            *)
(*   - the auth providers and createAuthProvider (auth)                   *)
(*   - buildPaginationParams / paginateResults    (utils/pagination)       *)
(* Each part has its own specification over the shared variables; the      *)
(* variables of the other parts stay at their idle values.                 *)
(***************************************************************************)
EXTENDS Integers, Sequences, FiniteSets, TLC

VARIABLES
  \* ---- BitbucketClient (one call of request)
  maxRetries,    \* config.maxRetries
  retryDelay,    \* config.retryDelay (ms)
  timeout,       \* config.timeout (ms)
  callTimeout,   \* the timeout of the call: options.timeout, else this.timeout
  authHeader,    \* the header request() got from the provider
  pc,            \* where the call is suspended
  retryCount,    \* executeWithRetry's retryCount
  lastError,     \* executeWithRetry's lastError
  heldError,     \* the RateLimitError held across the rate-limit sleep
  log,           \* what the call did so far: fetches, responses, sleeps
  timers,        \* the setTimeout timers of the attempts that are still pending
  outcome,       \* what request() returned or threw
  \* ---- parseAPIError as a function
  cin,           \* the arguments of parseAPIError
  cout,          \* its result
  \* ---- OAuth2AuthProvider and the tasks that use it
  ocfg,          \* the OAuthConfig given to the constructor
  built,         \* "no" | "ok" | "threw"
  accessToken, refreshToken, tokenExpiry,
  now,           \* the clock (s)
  task,          \* per task: the provider operation in progress
  \* ---- the auth providers with fixed credentials, and createAuthProvider
  pin,           \* the constructor (or factory) call and its argument
  prov,          \* what the call produced: a provider, or the error it threw
  prov2,         \* what the same call produced when made again
  hdrs,          \* the headers the provider's getAuthHeader returned so far
  checked,       \* what validateAuthConfig did with the config of the factory call
  \* ---- pagination
  popts,         \* the PaginationOptions of the call (or undefined)
  params,        \* what buildPaginationParams returned
  gpc,           \* where the paginateResults generator is
  currentPage,   \* paginateResults' currentPage
  pageCount,     \* paginateResults' pageCount
  fetched,       \* the fetchPage calls made so far
  yielded,       \* per batch yielded: its page and whether the response had next
  \* ---- the bitbucket_pull_requests tool handler
  tparams,       \* the params of the invocation
  tpc,           \* where the handler is
  requests,      \* the API calls the handler issued
  tresult        \* what the handler returned, or the error it threw

clientVars == <<maxRetries, retryDelay, timeout, callTimeout, authHeader, pc,
                retryCount, lastError, heldError, log, timers, outcome>>
classifyVars == <<cin, cout>>
oauthVars == <<ocfg, built, accessToken, refreshToken, tokenExpiry, now, task>>
authVars == <<pin, prov, prov2, hdrs, checked>>
pageVars == <<popts, params, gpc, currentPage, pageCount, fetched, yielded>>
toolVars == <<tparams, tpc, requests, tresult>>
\* what the actions of each specification leave alone
otherThanClient == <<classifyVars, oauthVars, authVars, pageVars, toolVars>>
otherThanClassify == <<clientVars, oauthVars, authVars, pageVars, toolVars>>
otherThanOAuth == <<clientVars, classifyVars, authVars, pageVars, toolVars>>
otherThanAuth == <<clientVars, classifyVars, oauthVars, pageVars, toolVars>>
otherThanPage == <<clientVars, classifyVars, oauthVars, authVars, toolVars>>
otherThanTool == <<clientVars, classifyVars, oauthVars, authVars, pageVars>>
vars == <<clientVars, classifyVars, oauthVars, authVars, pageVars, toolVars>>

---------------------------------------------------------------------------
(* JavaScript values.  A string is modelled by the sequence of its         *)
(* non-empty pieces, so that "" is <<>> and concatenation is \o.           *)

Undef == [t |-> "undefined"]
Null == [t |-> "null"]
Num(n) == [t |-> "number", v |-> n]
Str(s) == [t |-> "string", v |-> s]
ErrObj(m) == [t |-> "object", message |-> m]

\* x ?? y takes y exactly when x is null or undefined
Nullish(x) == x.t \in {"undefined", "null"}

\* JavaScript truthiness of the values used here
Truthy(x) ==
  CASE x.t = "number" -> x.v # 0
    [] x.t = "string" -> x.v # <<>>
    [] x.t = "object" -> TRUE
    [] OTHER -> FALSE

\* String(x) for the values that reach a message
ToStr(x) ==
  CASE x.t = "string" -> x.v
    [] x.t = "number" -> <<ToString(x.v)>>
    [] x.t = "object" -> <<"[object Object]">>
    [] OTHER -> <<x.t>>

JsonObject(e, m, ra, vals) ==
  [kind |-> "object", error |-> e, message |-> m, retry_after |-> ra, values |-> vals]
EmptyObject == JsonObject(Undef, Undef, Undef, Undef)
NonObject(k) == [kind |-> k]

\* what a member access evaluates to when it raises a TypeError
Raised == [t |-> "raised"]

\* body.field without optional chaining: raises on null and undefined
FieldStrict(body, f) ==
  IF body.kind = "object" THEN body[f]
  ELSE IF body.kind \in {"null", "undefined"} THEN Raised
  ELSE Undef

\* body?.field : undefined unless body is an object that has the field
Field(body, f) == IF body.kind = "object" THEN body[f] ELSE Undef

---------------------------------------------------------------------------
(* The error classes.  Every error value carries the same fields.          *)

MkError(name, message, code, statusCode, retryAfter) ==
  [name |-> name, message |-> message, code |-> code, statusCode |-> statusCode,
   retryAfter |-> retryAfter]

AuthenticationError(message) ==
  MkError("AuthenticationError", message, "AUTHENTICATION_ERROR", 401, Undef)

AuthorizationError(message) ==
  MkError("AuthorizationError", message, "AUTHORIZATION_ERROR", 403, Undef)

NotFoundError(resource, identifier) ==
  MkError("NotFoundError", resource \o <<" not found: ">> \o identifier,
          "NOT_FOUND", 404, Undef)

RateLimitError(retryAfter) ==
  MkError("RateLimitError",
          <<"Rate limit exceeded">> \o
            (IF Truthy(retryAfter)
               THEN <<". Retry after ">> \o ToStr(retryAfter) \o <<" seconds">>
               ELSE <<>>),
          "RATE_LIMIT_ERROR", 429, retryAfter)

BitbucketAPIError(message, statusCode) ==
  MkError("BitbucketAPIError", message, "BITBUCKET_API_ERROR", statusCode, Undef)

\* a plain Error, and the exceptions fetch and response.json() raise
PlainError(name, message) == MkError(name, message, "", 0, Undef)
NoError == PlainError("", <<>>)

\* the TypeError of a member access on null or undefined
TypeError == PlainError("TypeError", <<"Cannot read properties">>)

\* (body?.error)?.message ?? body?.message ?? 'Unknown error'
errorMessage(body) ==
  LET e == Field(body, "error")
      em == IF e = Raised THEN Raised
            ELSE IF e.t = "object" THEN e.message ELSE Undef
      bm == Field(body, "message")
  IN  IF ~Nullish(em) THEN em
      ELSE IF ~Nullish(bm) THEN bm
      ELSE Str(<<"Unknown error">>)

\* the classifier with the classes of 401 and 403 exchanged
parseAPIErrorSwapped(statusCode, endpoint, responseBody) ==
  CASE statusCode = 401 -> AuthorizationError(ToStr(errorMessage(responseBody)))
    [] statusCode = 403 -> AuthenticationError(ToStr(errorMessage(responseBody)))
    [] statusCode = 404 -> NotFoundError(<<"Resource">>, endpoint)
    [] statusCode = 429 -> RateLimitError(Field(responseBody, "retry_after"))
    [] OTHER -> BitbucketAPIError(ToStr(errorMessage(responseBody)), statusCode)

\* The result is the error the call returns, or the TypeError it raises
\* (errorMessage is evaluated before the switch, retry_after inside case 429).
parseAPIError(statusCode, endpoint, responseBody) ==
  LET message == errorMessage(responseBody)
      retryAfter == Field(responseBody, "retry_after")
  IN  IF message = Raised \/ (statusCode = 429 /\ retryAfter = Raised)
        THEN TypeError
        ELSE CASE statusCode = 401 -> AuthenticationError(ToStr(message))
               [] statusCode = 403 -> AuthorizationError(ToStr(message))
               [] statusCode = 404 -> NotFoundError(<<"Resource">>, endpoint)
               [] statusCode = 429 -> RateLimitError(retryAfter)
               [] OTHER -> BitbucketAPIError(ToStr(message), statusCode)

---------------------------------------------------------------------------
(* parseAPIError as a function of bounded inputs (SpecClassify).           *)

StatusCodes == {400, 401, 403, 404, 429, 500, 503}
Endpoints == {<<>>, <<"/repositories/ws/repo">>}
MessageFields == {Undef, Null, Str(<<>>), Str(<<"Not allowed">>)}
ErrorFields ==
  {Undef, Null, Str(<<"oops">>)} \cup {ErrObj(m) : m \in {Undef, Str(<<>>), Str(<<"Bad token">>)}}
RetryAfterFields == {Undef, Num(0), Num(30)}
Bodies ==
  {JsonObject(e, m, ra, Undef) : e \in ErrorFields, m \in MessageFields, ra \in RetryAfterFields}
    \cup {NonObject("null"), NonObject("undefined"), NonObject("string")}

ClassifyInputs == [statusCode : StatusCodes, endpoint : Endpoints, body : Bodies]
NoInput == [statusCode |-> 0, endpoint |-> <<>>, body |-> NonObject("undefined")]

ClassifyOff == cin = NoInput /\ cout = NoError

\* a caller hands parseAPIError its arguments
Classify ==
  /\ cout = NoError
  /\ cin \in ClassifyInputs
  /\ cout' = parseAPIError(cin.statusCode, cin.endpoint, cin.body)
  /\ UNCHANGED <<cin, otherThanClassify>>

\* the next response to classify
NextInput ==
  /\ cout # NoError
  /\ cin' \in ClassifyInputs
  /\ cout' = NoError
  /\ UNCHANGED <<otherThanClassify>>

---------------------------------------------------------------------------
(* BitbucketClient.request and executeWithRetry (Spec).                    *)

MaxRetriesBound == 3
DefaultTimeout == 30000
DefaultRetryDelay == 1000
RetryDelays == {DefaultRetryDelay, 250}
TimeoutOptions == {Undef, Num(5000)}
Url == <<"https://api.bitbucket.org/2.0/repositories/ws/repo">>

Unparseable == NonObject("unparseable")
Page == JsonObject(Undef, Undef, Undef, Str(<<"page">>))

HttpResponse(status, contentType, json) ==
  [kind |-> "http", status |-> status, contentType |-> contentType, json |-> json]

OkResponses ==
  { HttpResponse(200, TRUE, Page), HttpResponse(200, FALSE, Page),
    HttpResponse(204, TRUE, Unparseable), HttpResponse(200, TRUE, Unparseable) }
ClientErrorResponses ==
  { HttpResponse(401, TRUE, JsonObject(Undef, Str(<<"Token expired">>), Undef, Undef)),
    HttpResponse(404, FALSE, Unparseable) }
RateLimitResponses ==
  { HttpResponse(429, TRUE, JsonObject(Undef, Undef, Num(2), Undef)),
    HttpResponse(429, TRUE, JsonObject(Undef, Undef, Num(0), Undef)),
    HttpResponse(429, FALSE, Unparseable) }
ServerErrorResponses ==
  { HttpResponse(503, FALSE, Unparseable) }
Responses ==
  OkResponses \cup ClientErrorResponses \cup RateLimitResponses \cup ServerErrorResponses

\* response.ok
ok(r) == r.status >= 200 /\ r.status <= 299

\* what fetch rejects with when the network fails, and when the signal aborts
TransportError == PlainError("TypeError", <<"fetch failed">>)
AbortError == PlainError("AbortError", <<"This operation was aborted">>)
SyntaxError == PlainError("SyntaxError", <<"Unexpected token">>)

\* what the provider's getAuthHeader can reject with (OAuth2AuthProvider)
AuthFailures ==
  { AuthenticationError(<<"No valid authentication method available">>), TransportError }
AuthHeaders == {<<"Bearer ", "t1">>, <<"Basic ", "dTpw">>}

FetchEvent(attempt, header, ms) ==
  [ev |-> "fetch", attempt |-> attempt, timer |-> ms, auth |-> header]
\* a pending setTimeout(() => controller.abort(), ms) of an attempt
Timer(attempt, ms) == [attempt |-> attempt, ms |-> ms]
ResponseEvent(r) == [ev |-> "response", r |-> r]
SleepEvent(kind, ms) == [ev |-> "sleep", kind |-> kind, ms |-> ms]
Timeout == [kind |-> "timeout"]
Rejected == [kind |-> "transport"]

NoOutcome == [kind |-> "none"]
Returned(v) == [kind |-> "value", value |-> v]
Threw(e) == [kind |-> "error", error |-> e]

ClientOff ==
  /\ maxRetries = 0 /\ retryDelay = 0 /\ timeout = 0 /\ callTimeout = 0
  /\ authHeader = <<>> /\ pc = "off" /\ retryCount = 0
  /\ lastError = NoError /\ heldError = NoError /\ log = <<>> /\ timers = {}
  /\ outcome = NoOutcome

ClientInit ==
  /\ maxRetries \in 0..MaxRetriesBound
  /\ retryDelay \in RetryDelays
  /\ timeout = DefaultTimeout
  /\ callTimeout = 0
  /\ authHeader = <<>>
  /\ pc = "idle"
  /\ retryCount = 0
  /\ lastError = NoError
  /\ heldError = NoError
  /\ log = <<>>
  /\ timers = {}
  /\ outcome = NoOutcome

configVars == <<maxRetries, retryDelay, timeout>>

\* request(): the call is made and awaits authProvider.getAuthHeader()
request ==
  /\ pc = "idle"
  /\ \E t \in TimeoutOptions :
       callTimeout' = IF t = Undef THEN timeout ELSE t.v
  /\ pc' = "auth"
  /\ UNCHANGED <<configVars, authHeader, retryCount, lastError, heldError, log, timers,
                 outcome, otherThanClient>>

\* the ms slept in the events lg
RECURSIVE SleptMs(_)
SleptMs(lg) ==
  IF lg = <<>> THEN 0
  ELSE (IF Head(lg).ev = "sleep" THEN Head(lg).ms ELSE 0) + SleptMs(Tail(lg))

\* init.timeout ?? this.timeout, the delay of the timer an attempt starts after
\* the events lg
attemptTimerRemaining(lg) == callTimeout - SleptMs(lg)
attemptTimer(lg) == callTimeout

\* the loop condition of executeWithRetry
loopConditionOffByOne(rc) == rc <= maxRetries + 1
loopCondition(rc) == rc <= maxRetries

\* the head of the while loop with retryCount = rc and lastError = le: the next
\* fetch is issued with a new AbortController and timer, or the loop is left
loopHeadFreshHeader(rc, le, lg, header) ==
  IF loopCondition(rc)
    THEN /\ \E h \in AuthHeaders :
              log' = Append(lg, FetchEvent(rc, h, attemptTimer(lg)))
         /\ timers' = timers \cup {Timer(rc, attemptTimer(lg))}
         /\ pc' = "fetching"
         /\ outcome' = outcome
    ELSE /\ log' = lg
         /\ timers' = timers
         /\ pc' = "done"
         /\ outcome' = Threw(IF le # NoError THEN le
                             ELSE PlainError("Error", <<"Request failed after maximum retries">>))
loopHeadGenericError(rc, le, lg, header) ==
  IF loopCondition(rc)
    THEN /\ log' = Append(lg, FetchEvent(rc, header, attemptTimer(lg)))
         /\ timers' = timers \cup {Timer(rc, attemptTimer(lg))}
         /\ pc' = "fetching"
         /\ outcome' = outcome
    ELSE /\ log' = lg
         /\ timers' = timers
         /\ pc' = "done"
         /\ outcome' = Threw(PlainError("Error", <<"Request failed after maximum retries">>))
loopHead(rc, le, lg, header) ==
  IF loopCondition(rc)
    THEN /\ log' = Append(lg, FetchEvent(rc, header, attemptTimer(lg)))
         /\ timers' = timers \cup {Timer(rc, attemptTimer(lg))}
         /\ pc' = "fetching"
         /\ outcome' = outcome
    ELSE /\ log' = lg
         /\ timers' = timers
         /\ pc' = "done"
         /\ outcome' = Threw(IF le # NoError THEN le
                             ELSE PlainError("Error", <<"Request failed after maximum retries">>))

\* getAuthHeader resolved: the headers are built and executeWithRetry starts
authResolved ==
  /\ pc = "auth"
  /\ \E h \in AuthHeaders :
       /\ authHeader' = h
       /\ loopHead(0, NoError, log, h)
  /\ retryCount' = 0
  /\ lastError' = NoError
  /\ UNCHANGED <<configVars, callTimeout, heldError, otherThanClient>>

\* getAuthHeader rejected: request() rejects with the provider's error
authRejected ==
  /\ pc = "auth"
  /\ \E e \in AuthFailures : outcome' = Threw(e)
  /\ pc' = "done"
  /\ UNCHANGED <<configVars, callTimeout, authHeader, retryCount, lastError, heldError, log,
                 timers, otherThanClient>>

\* response.status >= 400 && response.status < 500 && response.status !== 429
isClientError(status) == status >= 400 /\ status < 500 /\ status # 429

\* error.name === 'AbortError'
isAbortNever(error) == FALSE
isAbort(error) == error.name = "AbortError"

\* retryCount < this.maxRetries
shouldRetryOffByOne(rc) == rc + 1 < maxRetries
shouldRetry(rc) == rc < maxRetries

\* this.retryDelay * Math.pow(2, retryCount)
backoffDelayLinear(rc) == retryDelay * (rc + 1)
backoffDelay(rc) == retryDelay * (2 ^ rc)

\* (error.retryAfter ?? this.retryDelay / 1000) * 1000, in ms.  The default is
\* retryDelay / 1000 * 1000, which setTimeout takes as retryDelay ms.
rateLimitWaitExponential(error) == backoffDelay(retryCount)
rateLimitWait(error) ==
  IF ~Nullish(error.retryAfter) THEN error.retryAfter.v * 1000 ELSE retryDelay

\* new Error(`Request timeout after ${init.timeout ?? this.timeout}ms`)
timeoutError == PlainError("Error", <<"Request timeout after ", ToString(callTimeout), "ms">>)

\* the catch block of executeWithRetry, entered with `error` (an Error) after
\* the events lg
catchBlockNoSleep(error, lg) ==
  IF isAbort(error)
    THEN /\ outcome' = Threw(timeoutError)
         /\ pc' = "done"
         /\ log' = lg
         /\ lastError' = lastError
    ELSE /\ lastError' = error
         /\ IF shouldRetry(retryCount)
              THEN /\ log' = lg
                   /\ pc' = "backoffSleep"
                   /\ outcome' = outcome
              ELSE /\ log' = lg
                   /\ pc' = "done"
                   /\ outcome' = Threw(error)
catchBlock(error, lg) ==
  IF isAbort(error)
    THEN /\ outcome' = Threw(timeoutError)
         /\ pc' = "done"
         /\ log' = lg
         /\ lastError' = lastError
    ELSE /\ lastError' = error
         /\ IF shouldRetry(retryCount)
              THEN /\ log' = Append(lg, SleepEvent("backoff", backoffDelay(retryCount)))
                   /\ pc' = "backoffSleep"
                   /\ outcome' = outcome
              ELSE /\ log' = lg
                   /\ pc' = "done"
                   /\ outcome' = Threw(error)

\* controller.abort() of the timer tm rejects the fetch in flight only when tm
\* is the timer of that attempt: each attempt has its own AbortController
aborts(tm) == pc = "fetching" /\ tm.attempt = retryCount

\* fetch resolved with response r: clearTimeout and the rest of the try block
responseArrives ==
  /\ pc = "fetching"
  /\ timers' = {tm \in timers : tm.attempt # retryCount}
  /\ \E r \in Responses :
       LET lg == Append(log, ResponseEvent(r))
           errorBody == IF r.json = Unparseable THEN EmptyObject ELSE r.json
           error == parseAPIError(r.status, Url, errorBody)
       IN  IF ~ok(r)
             THEN IF isClientError(r.status)
                    THEN catchBlock(error, lg) /\ heldError' = heldError
                  ELSE IF error.name = "RateLimitError"
                    THEN /\ log' = Append(lg, SleepEvent("rate_limit", rateLimitWait(error)))
                         /\ pc' = "rateLimitSleep"
                         /\ heldError' = error
                         /\ UNCHANGED <<lastError, outcome>>
                  ELSE catchBlock(error, lg) /\ heldError' = heldError
           ELSE IF ~r.contentType \/ r.status = 204
             THEN /\ outcome' = Returned(EmptyObject)
                  /\ pc' = "done"
                  /\ log' = lg
                  /\ UNCHANGED <<lastError, heldError>>
           ELSE IF r.json = Unparseable
             THEN catchBlock(SyntaxError, lg) /\ heldError' = heldError
           ELSE /\ outcome' = Returned(r.json)
                /\ pc' = "done"
                /\ log' = lg
                /\ UNCHANGED <<lastError, heldError>>
  /\ UNCHANGED <<configVars, callTimeout, authHeader, retryCount, otherThanClient>>

\* fetch rejected with a network failure; the timer of the attempt is not
\* cleared
fetchRejects ==
  /\ pc = "fetching"
  /\ catchBlock(TransportError, Append(log, ResponseEvent(Rejected)))
  /\ UNCHANGED <<configVars, callTimeout, authHeader, retryCount, heldError, timers,
                 otherThanClient>>

\* the timer fired first: controller.abort() makes fetch reject with AbortError
timerFires ==
  /\ pc = "fetching"
  /\ \E tm \in timers :
       /\ aborts(tm)
       /\ timers' = timers \ {tm}
  /\ catchBlock(AbortError, Append(log, ResponseEvent(Timeout)))
  /\ UNCHANGED <<configVars, callTimeout, authHeader, retryCount, heldError,
                 otherThanClient>>

\* the timer of an attempt whose fetch already rejected fires while the call
\* goes on: it aborts the controller of that attempt, which nothing listens to
\* any more
staleTimerFires ==
  /\ pc \in {"fetching", "rateLimitSleep", "backoffSleep"}
  /\ \E tm \in timers :
       /\ ~aborts(tm)
       /\ timers' = timers \ {tm}
  /\ UNCHANGED <<configVars, callTimeout, authHeader, pc, retryCount, lastError, heldError,
                 log, outcome, otherThanClient>>

\* the rate-limit sleep ended: retryCount++; lastError = error; continue
rateLimitSleepEnds ==
  /\ pc = "rateLimitSleep"
  /\ retryCount' = retryCount + 1
  /\ lastError' = heldError
  /\ loopHead(retryCount + 1, heldError, log, authHeader)
  /\ UNCHANGED <<configVars, callTimeout, authHeader, heldError, otherThanClient>>

\* the backoff sleep ended: retryCount++; continue
backoffSleepEnds ==
  /\ pc = "backoffSleep"
  /\ retryCount' = retryCount + 1
  /\ loopHead(retryCount + 1, lastError, log, authHeader)
  /\ UNCHANGED <<configVars, callTimeout, authHeader, lastError, heldError,
                 otherThanClient>>

ClientNext ==
  \/ request
  \/ authResolved
  \/ authRejected
  \/ responseArrives
  \/ fetchRejects
  \/ timerFires
  \/ staleTimerFires
  \/ rateLimitSleepEnds
  \/ backoffSleepEnds

---------------------------------------------------------------------------
(* OAuth2AuthProvider, used by tasks that share the one instance           *)
(* (SpecOAuth).  A task is a tool invocation or the startup validation; it *)
(* is suspended at the awaits of the provider's methods.                   *)

MaxClock == 3300
ClockSteps == {1650}
Tasks == {"t1", "t2"}

OAuthConfigs ==
  { c \in [clientId : {Str(<<>>), Str(<<"id">>)}, clientSecret : {Str(<<>>), Str(<<"secret">>)},
           accessToken : {Undef, Str(<<"a0">>)}, refreshToken : {Undef, Str(<<"r0">>)}] :
      Truthy(c.clientSecret) => Truthy(c.clientId) }

\* what the token endpoint can answer: a token response, or a non-2xx status
\* with a body text
TokenResponses ==
  [ok : {TRUE}, access_token : {Str(<<"a1">>), Str(<<"a2">>)},
   refresh_token : {Undef, Str(<<"r1">>)}, expires_in : {Undef, Num(0), Num(3600)}]
    \cup [ok : {FALSE}, text : {<<"invalid_grant">>}]

\* data: what the token endpoint answered the exchange of the operation
NoResponse == [ok |-> FALSE, text |-> <<>>]
NoTask ==
  [op |-> "none", pc |-> "idle", branch |-> "none", calls |-> 0, result |-> NoOutcome,
   data |-> NoResponse]

OAuthOff ==
  /\ ocfg = <<>> /\ built = "off" /\ accessToken = Undef /\ refreshToken = Undef
  /\ tokenExpiry = Undef /\ now = 0 /\ task = <<>>

OAuthInit ==
  /\ ocfg \in OAuthConfigs
  /\ built = "no"
  /\ accessToken = Undef /\ refreshToken = Undef /\ tokenExpiry = Undef
  /\ now = 0
  /\ task = [t \in Tasks |-> NoTask]

\* new OAuth2AuthProvider(config)
constructor ==
  /\ built = "no"
  /\ IF (~Truthy(ocfg.clientId) \/ ~Truthy(ocfg.clientSecret)) /\ ~Truthy(ocfg.accessToken)
       THEN /\ built' = "threw"
            /\ UNCHANGED <<accessToken, refreshToken>>
       ELSE /\ built' = "ok"
            /\ accessToken' = ocfg.accessToken
            /\ refreshToken' = ocfg.refreshToken
  /\ UNCHANGED <<ocfg, tokenExpiry, now, task, otherThanOAuth>>

\* this.clientId && this.clientSecret
hasClientCredentials == Truthy(ocfg.clientId) /\ Truthy(ocfg.clientSecret)

\* this.accessToken && this.tokenExpiry && new Date() < this.tokenExpiry
tokenIsValidIgnoringExpiry == Truthy(accessToken)
tokenIsValid ==
  Truthy(accessToken) /\ tokenExpiry # Undef /\ now < tokenExpiry.v

\* the branch ensureValidToken takes
ensureValidTokenBranchCredentialsFirst ==
  IF tokenIsValid THEN "cached"
  ELSE IF hasClientCredentials THEN "client_credentials"
  ELSE IF Truthy(refreshToken) THEN "refresh_token"
  ELSE IF Truthy(accessToken) THEN "bare"
  ELSE "none"
ensureValidTokenBranch ==
  IF tokenIsValid THEN "cached"
  ELSE IF Truthy(refreshToken) THEN "refresh_token"
  ELSE IF hasClientCredentials THEN "client_credentials"
  ELSE IF Truthy(accessToken) THEN "bare"
  ELSE "none"

\* the branch refresh() takes
refreshBranchUnlessValid ==
  IF tokenIsValid THEN "cached"
  ELSE IF Truthy(refreshToken) THEN "refresh_token"
  ELSE IF hasClientCredentials THEN "client_credentials"
  ELSE "none"
refreshBranch ==
  IF Truthy(refreshToken) THEN "refresh_token"
  ELSE IF hasClientCredentials THEN "client_credentials"
  ELSE "none"

\* task t calls op: the method runs to its first await.  A token exchange
\* (refreshAccessToken, fetchClientCredentialsToken) suspends at its fetch.
begin(t, op, branch, noneMessage) ==
  task' = [task EXCEPT ![t] =
    [op |-> op, branch |-> branch,
     calls |-> IF branch \in {"refresh_token", "client_credentials"} THEN 1 ELSE 0,
     pc |-> CASE branch \in {"refresh_token", "client_credentials"} -> "exchange"
              [] branch \in {"cached", "bare"} -> "ensured"
              [] OTHER -> "failed",
     result |-> IF branch = "none" THEN Threw(AuthenticationError(noneMessage))
                ELSE NoOutcome,
     data |-> NoResponse]]

NoValidMethod == <<"No valid authentication method available">>
CannotRefresh == <<"Cannot refresh token: no refresh token or client credentials">>

getAuthHeader(t) ==
  /\ built = "ok" /\ task[t].pc = "idle"
  /\ begin(t, "getAuthHeader", ensureValidTokenBranch, NoValidMethod)
  /\ UNCHANGED <<ocfg, built, accessToken, refreshToken, tokenExpiry, now,
                 otherThanOAuth>>

validate(t) ==
  /\ built = "ok" /\ task[t].pc = "idle"
  /\ begin(t, "validate", ensureValidTokenBranch, NoValidMethod)
  /\ UNCHANGED <<ocfg, built, accessToken, refreshToken, tokenExpiry, now,
                 otherThanOAuth>>

refresh(t) ==
  /\ built = "ok" /\ task[t].pc = "idle"
  /\ begin(t, "refresh", refreshBranch, CannotRefresh)
  /\ UNCHANGED <<ocfg, built, accessToken, refreshToken, tokenExpiry, now,
                 otherThanOAuth>>

\* the safety margin of updateTokens, in seconds
ExpiryBuffer == 300

\* new Date(Date.now() + (data.expires_in - 300) * 1000), in seconds
expiryNoBuffer(expires_in) == now + expires_in
expiryOf(expires_in) == now + (expires_in - ExpiryBuffer)

\* updateTokens(data)
updateTokensReplacingAll(data) ==
  /\ accessToken' = data.access_token
  /\ refreshToken' = data.refresh_token
  /\ tokenExpiry' = IF Truthy(data.expires_in) THEN Num(expiryOf(data.expires_in.v))
                    ELSE tokenExpiry
updateTokens(data) ==
  /\ accessToken' = data.access_token
  /\ refreshToken' = IF Truthy(data.refresh_token) THEN data.refresh_token ELSE refreshToken
  /\ tokenExpiry' = IF Truthy(data.expires_in) THEN Num(expiryOf(data.expires_in.v))
                    ELSE tokenExpiry

FailedPrefix(grant) ==
  IF grant = "refresh_token" THEN <<"Failed to refresh OAuth token: ">>
  ELSE <<"Failed to obtain OAuth token: ">>

\* `Failed to ... OAuth token: ${error}`, error being response.text()
failureMessageWithoutBody(grant, text) == FailedPrefix(grant)
failureMessage(grant, text) == FailedPrefix(grant) \o text

\* the token endpoint answered task t's exchange
tokenResponseDropsTokenOnFailure(t) ==
  /\ task[t].pc = "exchange"
  /\ \E resp \in TokenResponses :
       IF resp.ok
         THEN /\ updateTokens(resp)
              /\ task' = [task EXCEPT ![t].pc = "ensured", ![t].data = resp]
         ELSE /\ task' = [task EXCEPT
                   ![t].pc = "failed",
                   ![t].data = resp,
                   ![t].result =
                      Threw(AuthenticationError(failureMessage(task[t].branch, resp.text)))]
              /\ accessToken' = Undef
              /\ UNCHANGED <<refreshToken, tokenExpiry>>
  /\ UNCHANGED <<ocfg, built, now, otherThanOAuth>>
tokenResponse(t) ==
  /\ task[t].pc = "exchange"
  /\ \E resp \in TokenResponses :
       IF resp.ok
         THEN /\ updateTokens(resp)
              /\ task' = [task EXCEPT ![t].pc = "ensured", ![t].data = resp]
         ELSE /\ task' = [task EXCEPT
                   ![t].pc = "failed",
                   ![t].data = resp,
                   ![t].result =
                      Threw(AuthenticationError(failureMessage(task[t].branch, resp.text)))]
              /\ UNCHANGED <<accessToken, refreshToken, tokenExpiry>>
  /\ UNCHANGED <<ocfg, built, now, otherThanOAuth>>

\* the fetch of task t's exchange rejected (network failure)
tokenFetchRejects(t) ==
  /\ task[t].pc = "exchange"
  /\ task' = [task EXCEPT ![t].pc = "failed", ![t].result = Threw(TransportError)]
  /\ UNCHANGED <<ocfg, built, accessToken, refreshToken, tokenExpiry, now,
                 otherThanOAuth>>

\* the operation of task t settles: getAuthHeader returns `Bearer ${accessToken}`,
\* validate returns !!accessToken or, having caught an error, false
settle(t) ==
  /\ task[t].pc \in {"ensured", "failed"}
  /\ task' = [task EXCEPT
       ![t].pc = "done",
       ![t].data = IF task[t].pc = "ensured" THEN NoResponse ELSE task[t].data,
       ![t].result =
          CASE task[t].op = "validate" ->
                 Returned(task[t].pc = "ensured" /\ Truthy(accessToken))
            [] task[t].pc = "failed" -> task[t].result
            [] task[t].op = "getAuthHeader" -> Returned(<<"Bearer ">> \o ToStr(accessToken))
            [] OTHER -> Returned(<<>>)]
  /\ UNCHANGED <<ocfg, built, accessToken, refreshToken, tokenExpiry, now,
                 otherThanOAuth>>

\* task t is free for its next operation
release(t) ==
  /\ task[t].pc = "done"
  /\ task' = [task EXCEPT ![t] = NoTask]
  /\ UNCHANGED <<ocfg, built, accessToken, refreshToken, tokenExpiry, now,
                 otherThanOAuth>>

\* time passes
tick ==
  /\ \E d \in ClockSteps : now + d <= MaxClock /\ now' = now + d
  /\ UNCHANGED <<ocfg, built, accessToken, refreshToken, tokenExpiry, task,
                 otherThanOAuth>>

OAuthNext ==
  \/ constructor
  \/ tick
  \/ \E t \in Tasks :
       \/ getAuthHeader(t)
       \/ validate(t)
       \/ refresh(t)
       \/ tokenResponse(t)
       \/ tokenFetchRejects(t)
       \/ settle(t)
       \/ release(t)

---------------------------------------------------------------------------
(* The auth providers with fixed credentials and createAuthProvider        *)
(* (SpecAuth).  A credential is a string of single characters.             *)

MaxEmailLen == 3
MaxTokenLen == 2
MaxHeaderCalls == 2

Chars == {"a", "1", ":", "@"}
\* the byte Buffer.from gives for each character (UTF-8 of an ASCII character)
CharCode == [c \in Chars |-> CASE c = "a" -> 97 [] c = "1" -> 49 [] c = ":" -> 58 [] c = "@" -> 64]
Bytes(s) == [i \in 1..Len(s) |-> CharCode[s[i]]]

Base64Alphabet ==
  <<"A", "B", "C", "D", "E", "F", "G", "H", "I", "J", "K", "L", "M", "N", "O", "P",
     "Q", "R", "S", "T", "U", "V", "W", "X", "Y", "Z", "a", "b", "c", "d", "e", "f",
     "g", "h", "i", "j", "k", "l", "m", "n", "o", "p", "q", "r", "s", "t", "u", "v",
     "w", "x", "y", "z", "0", "1", "2", "3", "4", "5", "6", "7", "8", "9", "+", "/">>
B64(i) == Base64Alphabet[i + 1]

\* Buffer.toString('base64'): three bytes give four characters, '=' pads
RECURSIVE Base64(_)
Base64(b) ==
  IF Len(b) = 0 THEN <<>>
  ELSE IF Len(b) = 1
    THEN <<B64(b[1] \div 4), B64((b[1] % 4) * 16), "=", "=">>
  ELSE IF Len(b) = 2
    THEN <<B64(b[1] \div 4), B64((b[1] % 4) * 16 + b[2] \div 16),
           B64((b[2] % 16) * 4), "=">>
  ELSE <<B64(b[1] \div 4), B64((b[1] % 4) * 16 + b[2] \div 16),
         B64((b[2] % 16) * 4 + b[3] \div 64), B64(b[3] % 64)>>
         \o Base64(SubSeq(b, 4, Len(b)))

StringsUpTo(n) == UNION {[1..k -> Chars] : k \in 1..n}
Absent == {Undef, Str(<<>>)}
Emails == {Str(s) : s \in StringsUpTo(MaxEmailLen)}
Tokens == {Str(s) : s \in StringsUpTo(MaxTokenLen)}
TokenTypes == {"repository", "workspace", "project"}
AuthMethods == {"api_token", "repository_token", "workspace_token", "oauth", "basic"}

ConfigurationError(message) ==
  MkError("ConfigurationError", message, "CONFIGURATION_ERROR", 0, Undef)

NoProvider == [class |-> "none"]
Thrown(error) == [class |-> "threw", error |-> error]

\* new ApiTokenAuthProvider(config)
ApiTokenAuthProviderTokenOnly(config) ==
  IF ~Truthy(config.token)
    THEN Thrown(AuthenticationError(<<"API token", " is required">>))
  ELSE [class |-> "ApiTokenAuthProvider", token |-> config.token,
        userEmail |-> config.userEmail]
ApiTokenAuthProvider(config) ==
  IF ~Truthy(config.token)
    THEN Thrown(AuthenticationError(<<"API token", " is required">>))
  ELSE IF ~Truthy(config.userEmail)
    THEN Thrown(AuthenticationError(
           <<"User email", " is required for API token authentication. ",
             "API tokens use Basic HTTP Authentication where username is your Atlassian email.">>))
  ELSE [class |-> "ApiTokenAuthProvider", token |-> config.token,
        userEmail |-> config.userEmail]

\* new AccessTokenAuthProvider(config, tokenType)
AccessTokenAuthProvider(config, tokenType) ==
  IF ~Truthy(config.token)
    THEN Thrown(AuthenticationError(<<tokenType, " ", "access token", " is required">>))
  ELSE [class |-> "AccessTokenAuthProvider", token |-> config.token,
        tokenType |-> tokenType]

\* new BasicAuthProvider(config)
BasicAuthProvider(config) ==
  IF ~Truthy(config.username)
    THEN Thrown(AuthenticationError(<<"Username", " is required for basic authentication">>))
  ELSE IF ~Truthy(config.password)
    THEN Thrown(AuthenticationError(<<"Password", " is required for basic authentication">>))
  ELSE [class |-> "BasicAuthProvider", username |-> config.username,
        password |-> config.password]

\* new OAuth2AuthProvider(config), as far as construction goes
OAuth2AuthProvider(config) ==
  IF (~Truthy(config.clientId) \/ ~Truthy(config.clientSecret)) /\ ~Truthy(config.accessToken)
    THEN Thrown(AuthenticationError(
           <<"OAuth requires either ", "client credentials", " or an ", "access token">>))
  ELSE [class |-> "OAuth2AuthProvider", clientId |-> config.clientId,
        clientSecret |-> config.clientSecret, accessToken |-> config.accessToken,
        refreshToken |-> config.refreshToken]

\* x ?? ''
OrEmpty(x) == IF Nullish(x) THEN Str(<<>>) ELSE x

createAuthProvider(config) ==
  CASE config.authMethod = "api_token" ->
         IF ~Truthy(config.apiToken)
           THEN Thrown(ConfigurationError(
                  <<"BITBUCKET_API_TOKEN", " (or ATLASSIAN_API_TOKEN) is required for api_token authentication">>))
         ELSE IF ~Truthy(config.userEmail)
           THEN Thrown(ConfigurationError(
                  <<"BITBUCKET_USER_EMAIL", " (or ATLASSIAN_USER_EMAIL) is required for api_token authentication. ",
                    "API tokens use Basic HTTP Authentication where username is your Atlassian email.">>))
         ELSE ApiTokenAuthProvider([token |-> config.apiToken, userEmail |-> config.userEmail])
    [] config.authMethod = "repository_token" ->
         IF ~Truthy(config.apiToken)
           THEN Thrown(ConfigurationError(
                  <<"BITBUCKET_API_TOKEN", " is required for repository_token authentication">>))
         ELSE AccessTokenAuthProvider([token |-> config.apiToken], "repository")
    [] config.authMethod = "workspace_token" ->
         IF ~Truthy(config.apiToken)
           THEN Thrown(ConfigurationError(
                  <<"BITBUCKET_API_TOKEN", " is required for workspace_token authentication">>))
         ELSE AccessTokenAuthProvider([token |-> config.apiToken], "workspace")
    [] config.authMethod = "oauth" ->
         OAuth2AuthProvider([clientId |-> OrEmpty(config.oauthClientId),
                             clientSecret |-> OrEmpty(config.oauthClientSecret),
                             accessToken |-> config.oauthAccessToken,
                             refreshToken |-> config.oauthRefreshToken])
    [] config.authMethod = "basic" ->
         IF ~Truthy(config.username) \/ ~Truthy(config.password)
           THEN Thrown(ConfigurationError(
                  <<"BITBUCKET_USERNAME", " and ", "BITBUCKET_PASSWORD",
                    " are required for basic authentication">>))
         ELSE BasicAuthProvider([username |-> config.username, password |-> config.password])
    [] OTHER ->
         Thrown(ConfigurationError(<<"Unknown authentication method: ", config.authMethod>>))

\* validateAuthConfig(config): returns, or throws an Error
Accepted == [class |-> "accepted"]
validateAuthConfigByPresence(config) ==
  CASE config.authMethod = "api_token" ->
         IF config.apiToken = Undef
           THEN Thrown(PlainError("Error",
                  <<"BITBUCKET_API_TOKEN", " (or ATLASSIAN_API_TOKEN) is required for api_token authentication">>))
         ELSE IF config.userEmail = Undef
           THEN Thrown(PlainError("Error",
                  <<"BITBUCKET_USER_EMAIL", " (or ATLASSIAN_USER_EMAIL) is required for api_token authentication. ",
                    "API tokens use Basic HTTP Authentication where username is your Atlassian email.">>))
         ELSE Accepted
    [] config.authMethod \in {"repository_token", "workspace_token"} ->
         IF config.apiToken = Undef
           THEN Thrown(PlainError("Error",
                  <<"BITBUCKET_API_TOKEN", " is required for ", config.authMethod, " authentication">>))
         ELSE Accepted
    [] config.authMethod = "oauth" ->
         IF config.oauthAccessToken = Undef
              /\ (config.oauthClientId = Undef \/ config.oauthClientSecret = Undef)
           THEN Thrown(PlainError("Error",
                  <<"OAuth authentication requires either ", "BITBUCKET_OAUTH_ACCESS_TOKEN",
                    " or both ", "BITBUCKET_OAUTH_CLIENT_ID", " and ",
                    "BITBUCKET_OAUTH_CLIENT_SECRET">>))
         ELSE Accepted
    [] config.authMethod = "basic" ->
         IF config.username = Undef \/ config.password = Undef
           THEN Thrown(PlainError("Error",
                  <<"Basic authentication requires both ", "BITBUCKET_USERNAME", " and ",
                    "BITBUCKET_PASSWORD", " (or BITBUCKET_APP_PASSWORD)">>))
         ELSE Accepted
    [] OTHER -> Accepted
validateAuthConfig(config) ==
  CASE config.authMethod = "api_token" ->
         IF ~Truthy(config.apiToken)
           THEN Thrown(PlainError("Error",
                  <<"BITBUCKET_API_TOKEN", " (or ATLASSIAN_API_TOKEN) is required for api_token authentication">>))
         ELSE IF ~Truthy(config.userEmail)
           THEN Thrown(PlainError("Error",
                  <<"BITBUCKET_USER_EMAIL", " (or ATLASSIAN_USER_EMAIL) is required for api_token authentication. ",
                    "API tokens use Basic HTTP Authentication where username is your Atlassian email.">>))
         ELSE Accepted
    [] config.authMethod \in {"repository_token", "workspace_token"} ->
         IF ~Truthy(config.apiToken)
           THEN Thrown(PlainError("Error",
                  <<"BITBUCKET_API_TOKEN", " is required for ", config.authMethod, " authentication">>))
         ELSE Accepted
    [] config.authMethod = "oauth" ->
         IF ~Truthy(config.oauthAccessToken)
              /\ (~Truthy(config.oauthClientId) \/ ~Truthy(config.oauthClientSecret))
           THEN Thrown(PlainError("Error",
                  <<"OAuth authentication requires either ", "BITBUCKET_OAUTH_ACCESS_TOKEN",
                    " or both ", "BITBUCKET_OAUTH_CLIENT_ID", " and ",
                    "BITBUCKET_OAUTH_CLIENT_SECRET">>))
         ELSE Accepted
    [] config.authMethod = "basic" ->
         IF ~Truthy(config.username) \/ ~Truthy(config.password)
           THEN Thrown(PlainError("Error",
                  <<"Basic authentication requires both ", "BITBUCKET_USERNAME", " and ",
                    "BITBUCKET_PASSWORD", " (or BITBUCKET_APP_PASSWORD)">>))
         ELSE Accepted
    [] OTHER -> Accepted

\* getAuthHeader of the providers that hold fixed credentials
ApiToken_getAuthHeaderTokenFirst(p) ==
  <<"Basic ">> \o Base64(Bytes(p.token.v \o <<":">> \o p.userEmail.v))
ApiToken_getAuthHeader(p) ==
  <<"Basic ">> \o Base64(Bytes(p.userEmail.v \o <<":">> \o p.token.v))
AccessToken_getAuthHeaderNoSpace(p) == <<"Bearer">> \o p.token.v
AccessToken_getAuthHeader(p) == <<"Bearer ">> \o p.token.v
Basic_getAuthHeader(p) ==
  <<"Basic ">> \o Base64(Bytes(p.username.v \o <<":">> \o p.password.v))

\* the calls made: each constructor directly, and the factory
ApiTokenConfigs == [token : Absent \cup Tokens, userEmail : Absent \cup Emails]
AccessTokenConfigs == [token : Absent \cup Tokens]
BasicAuthConfigs ==
  [username : Absent \cup {Str(<<"a">>), Str(<<"a", "@">>)},
   password : Absent \cup {Str(<<"1">>), Str(<<":", "1">>)}]
AllOAuthConfigs ==
  [clientId : {Str(<<>>), Str(<<"a">>)}, clientSecret : {Str(<<>>), Str(<<"1">>)},
   accessToken : Absent \cup {Str(<<"a", "1">>)}, refreshToken : {Undef, Str(<<"1", "a">>)}]
\* every credential of the Config absent, empty or present
Configs ==
  [authMethod : AuthMethods,
   apiToken : Absent \cup {Str(<<"a", "1">>)}, userEmail : Absent \cup {Str(<<"a", "@", "a">>)},
   username : Absent \cup {Str(<<"a">>)}, password : Absent \cup {Str(<<"1">>)},
   oauthClientId : Absent \cup {Str(<<"a">>)}, oauthClientSecret : Absent \cup {Str(<<"1">>)},
   oauthAccessToken : Absent \cup {Str(<<"a", "1">>)}, oauthRefreshToken : {Undef}]

AuthCalls ==
  [call : {"ApiTokenAuthProvider"}, config : ApiTokenConfigs]
    \cup [call : {"AccessTokenAuthProvider"}, config : AccessTokenConfigs, tokenType : TokenTypes]
    \cup [call : {"BasicAuthProvider"}, config : BasicAuthConfigs]
    \cup [call : {"OAuth2AuthProvider"}, config : AllOAuthConfigs]
    \cup [call : {"createAuthProvider"}, config : Configs]
NoCall == [call |-> "none"]

NotChecked == [class |-> "none"]

AuthOff ==
  /\ pin = NoCall /\ prov = NoProvider /\ prov2 = NoProvider /\ hdrs = <<>>
  /\ checked = NotChecked
AuthInit ==
  /\ pin \in AuthCalls /\ prov = NoProvider /\ prov2 = NoProvider /\ hdrs = <<>>
  /\ checked = NotChecked

\* what the call in pin produces
Construct ==
  CASE pin.call = "ApiTokenAuthProvider" -> ApiTokenAuthProvider(pin.config)
    [] pin.call = "AccessTokenAuthProvider" -> AccessTokenAuthProvider(pin.config, pin.tokenType)
    [] pin.call = "BasicAuthProvider" -> BasicAuthProvider(pin.config)
    [] pin.call = "OAuth2AuthProvider" -> OAuth2AuthProvider(pin.config)
    [] pin.call = "createAuthProvider" -> createAuthProvider(pin.config)

construct(call) ==
  /\ pin.call = call
  /\ prov = NoProvider
  /\ prov' = Construct
  /\ UNCHANGED <<pin, prov2, hdrs, checked, otherThanAuth>>

\* the same call with the same argument, made a second time
constructAgain ==
  /\ prov # NoProvider /\ prov2 = NoProvider
  /\ prov2' = Construct
  /\ UNCHANGED <<pin, prov, hdrs, checked, otherThanAuth>>

providerGetAuthHeader ==
  /\ prov.class \in {"ApiTokenAuthProvider", "AccessTokenAuthProvider", "BasicAuthProvider"}
  /\ Len(hdrs) < MaxHeaderCalls
  /\ hdrs' = Append(hdrs,
       CASE prov.class = "ApiTokenAuthProvider" -> ApiToken_getAuthHeader(prov)
         [] prov.class = "AccessTokenAuthProvider" -> AccessToken_getAuthHeader(prov)
         [] prov.class = "BasicAuthProvider" -> Basic_getAuthHeader(prov))
  /\ UNCHANGED <<pin, prov, prov2, checked, otherThanAuth>>

\* the startup check of the config the factory is called with
callValidateAuthConfig ==
  /\ pin.call = "createAuthProvider"
  /\ checked = NotChecked
  /\ checked' = validateAuthConfig(pin.config)
  /\ UNCHANGED <<pin, prov, prov2, hdrs, otherThanAuth>>

AuthNext ==
  \/ construct("ApiTokenAuthProvider")
  \/ construct("AccessTokenAuthProvider")
  \/ construct("BasicAuthProvider")
  \/ construct("OAuth2AuthProvider")
  \/ construct("createAuthProvider")
  \/ constructAgain
  \/ providerGetAuthHeader
  \/ callValidateAuthConfig

---------------------------------------------------------------------------
(* Pagination: buildPaginationParams and the paginateResults generator     *)
(* (SpecPaginate).                                                         *)

DEFAULT_PAGE_LENGTH == 25
MAX_PAGE_LENGTH == 100
DEFAULT_MAX_PAGES == 10
MaxPagesBound == 2

Min(a, b) == IF a <= b THEN a ELSE b

\* options?.field
Option(options, f) == IF options = Undef THEN Undef ELSE options[f]

\* Math.min(options?.pagelen ?? DEFAULT_PAGE_LENGTH, MAX_PAGE_LENGTH)
pagelenOfUnclamped(options) ==
  IF Nullish(Option(options, "pagelen"))
    THEN DEFAULT_PAGE_LENGTH ELSE Option(options, "pagelen").v
pagelenOf(options) ==
  Min(IF Nullish(Option(options, "pagelen"))
        THEN DEFAULT_PAGE_LENGTH ELSE Option(options, "pagelen").v,
      MAX_PAGE_LENGTH)

\* the params object: a record that has the key page only when it was set
buildPaginationParams(options) ==
  IF Truthy(Option(options, "page"))
    THEN [page |-> ToStr(Option(options, "page")),
          pagelen |-> ToStr(Num(pagelenOf(options)))]
    ELSE [pagelen |-> ToStr(Num(pagelenOf(options)))]

\* options?.maxPages ?? DEFAULT_MAX_PAGES
maxPagesOf(options) ==
  IF Nullish(Option(options, "maxPages"))
    THEN DEFAULT_MAX_PAGES ELSE Option(options, "maxPages").v

\* options?.page ?? 1
firstPageOf(options) ==
  IF Nullish(Option(options, "page")) THEN 1 ELSE Option(options, "page").v

PaginationOptions ==
  [page : {Undef, Num(0), Num(3)},
   pagelen : {Undef, Num(10), Num(100), Num(200)},
   maxPages : {Undef} \cup {Num(n) : n \in 0..MaxPagesBound}]
     \cup {Undef}

NoParams == [none |-> TRUE]

PageOff ==
  /\ popts = Undef /\ params = NoParams /\ gpc = "off" /\ currentPage = 0
  /\ pageCount = 0 /\ fetched = <<>> /\ yielded = <<>>

PageInit ==
  /\ popts \in PaginationOptions /\ params = NoParams /\ gpc = "new"
  /\ currentPage = 0 /\ pageCount = 0 /\ fetched = <<>> /\ yielded = <<>>

\* a list endpoint builds its query parameters
callBuildPaginationParams ==
  /\ gpc # "off" /\ params = NoParams
  /\ params' = buildPaginationParams(popts)
  /\ UNCHANGED <<popts, gpc, currentPage, pageCount, fetched, yielded, otherThanPage>>

\* while (pageCount < maxPages)
whileConditionInclusive(count) == count <= maxPagesOf(popts)
whileCondition(count) == count < maxPagesOf(popts)

\* the loop head: fetchPage(currentPage, pagelen) is called, or the
\* generator returns
loopTop(page, count) ==
  IF whileCondition(count)
    THEN /\ fetched' = Append(fetched, [page |-> page, pagelen |-> pagelenOf(popts)])
         /\ gpc' = "fetching"
    ELSE /\ fetched' = fetched
         /\ gpc' = "done"

\* the consumer's first next(): the generator body starts
paginateResults ==
  /\ gpc = "new"
  /\ currentPage' = firstPageOf(popts)
  /\ pageCount' = 0
  /\ loopTop(firstPageOf(popts), 0)
  /\ UNCHANGED <<popts, params, yielded, otherThanPage>>

\* fetchPage resolves: the generator yields response.values and is suspended
fetchPageResolves(next) ==
  /\ gpc = "fetching"
  /\ yielded' = Append(yielded, [page |-> currentPage, next |-> next])
  /\ gpc' = "yielded"
  /\ UNCHANGED <<popts, params, currentPage, pageCount, fetched, otherThanPage>>

\* fetchPage rejects: the generator ends with that error
fetchPageRejects ==
  /\ gpc = "fetching"
  /\ gpc' = "threw"
  /\ UNCHANGED <<popts, params, currentPage, pageCount, fetched, yielded, otherThanPage>>

\* the consumer's next next(): the generator goes on after the yield
resume ==
  /\ gpc = "yielded"
  /\ IF ~yielded[Len(yielded)].next
       THEN /\ gpc' = "done"
            /\ UNCHANGED <<currentPage, pageCount, fetched>>
       ELSE /\ currentPage' = currentPage + 1
            /\ pageCount' = pageCount + 1
            /\ loopTop(currentPage + 1, pageCount + 1)
  /\ UNCHANGED <<popts, params, yielded, otherThanPage>>

PaginateNext ==
  \/ callBuildPaginationParams
  \/ paginateResults
  \/ \E next \in BOOLEAN : fetchPageResolves(next)
  \/ fetchPageRejects
  \/ resume

---------------------------------------------------------------------------
(* The handler of the bitbucket_pull_requests tool (SpecTool).             *)

Actions ==
  {"list", "get", "create", "update", "merge", "approve", "unapprove", "decline",
   "list_comments", "add_comment", "get_diff"}
\* the cases of the switch that start with `if (!pr_id)`
PrIdActions == Actions \ {"list", "create"}

ToolParams ==
  [action : Actions,
   pr_id : {Undef, Num(0), Num(7)},
   title : {Undef, Str(<<>>), Str(<<"Fix">>)},
   source_branch : {Undef, Str(<<"feature">>)},
   content : {Undef, Str(<<>>), Str(<<"LGTM">>)}]
NoParamsGiven == [action |-> "none"]

\* what the handler returns
ToolResult(text, isError) == [kind |-> "value", text |-> text, isError |-> isError]
ErrorResult(text) == ToolResult(<<"Error: ">> \o text, TRUE)

\* the text of the early return for a missing parameter, <<>> when the case
\* goes on to its API call
requiredParameterErrorPrIdOnly(p) ==
  IF p.action \in PrIdActions /\ ~Truthy(p.pr_id)
    THEN <<"pr_id", " is required for ", p.action, " action">>
  ELSE <<>>
requiredParameterError(p) ==
  IF p.action \in PrIdActions /\ ~Truthy(p.pr_id)
    THEN <<"pr_id", " is required for ", p.action, " action">>
  ELSE IF p.action = "add_comment" /\ ~Truthy(p.content)
    THEN <<"content", " is required for add_comment action">>
  ELSE IF p.action = "create" /\ (~Truthy(p.title) \/ ~Truthy(p.source_branch))
    THEN <<"title", " and ", "source_branch", " are required for create action">>
  ELSE <<>>

\* what a rejected API call rejects with: an Error, or a value that is not one
ApiRejections ==
  {[isErrorObject |-> TRUE, error |-> e] :
     e \in {NotFoundError(<<"Resource">>, <<"/repositories/ws/repo/pullrequests/7">>),
            AuthenticationError(<<"Bad token">>), RateLimitError(Num(30)),
            BitbucketAPIError(<<"Unknown error">>, 500), TransportError,
            PlainError("Error", <<"Request timeout after ", "30000", "ms">>)}}
    \cup {[isErrorObject |-> FALSE, error |-> NoError]}

\* catch (error): error instanceof Error ? error.message : 'Unknown error'
catchToolErrorRethrow(rejection) == Threw(rejection.error)
catchToolError(rejection) ==
  ErrorResult(IF rejection.isErrorObject THEN rejection.error.message
              ELSE <<"Unknown error">>)

ToolOff == tparams = NoParamsGiven /\ tpc = "off" /\ requests = 0 /\ tresult = NoOutcome
ToolInit == tparams \in ToolParams /\ tpc = "new" /\ requests = 0 /\ tresult = NoOutcome

\* the handler runs to its early return or to the await of its API call
handler ==
  /\ tpc = "new"
  /\ IF requiredParameterError(tparams) # <<>>
       THEN /\ tresult' = ErrorResult(requiredParameterError(tparams))
            /\ tpc' = "done"
            /\ requests' = requests
       ELSE /\ requests' = requests + 1
            /\ tpc' = "awaiting"
            /\ tresult' = tresult
  /\ UNCHANGED <<tparams, otherThanTool>>

\* the API call resolves: the handler returns the formatted result
apiResolves ==
  /\ tpc = "awaiting"
  /\ tresult' = ToolResult(<<"result of ", tparams.action>>, FALSE)
  /\ tpc' = "done"
  /\ UNCHANGED <<tparams, requests, otherThanTool>>

\* the API call rejects: the catch block turns the error into a result
apiRejects ==
  /\ tpc = "awaiting"
  /\ \E rejection \in ApiRejections : tresult' = catchToolError(rejection)
  /\ tpc' = "done"
  /\ UNCHANGED <<tparams, requests, otherThanTool>>

ToolNext == handler \/ apiResolves \/ apiRejects

---------------------------------------------------------------------------
(* The specifications.                                                     *)

Init == ClientInit /\ ClassifyOff /\ OAuthOff /\ AuthOff /\ PageOff /\ ToolOff
Next == ClientNext
Spec == Init /\ [][Next]_vars

InitOAuth == ClientOff /\ ClassifyOff /\ AuthOff /\ PageOff /\ ToolOff /\ OAuthInit
SpecOAuth == InitOAuth /\ [][OAuthNext]_vars

InitClassify ==
  ClientOff /\ OAuthOff /\ AuthOff /\ PageOff /\ ToolOff /\ cin \in ClassifyInputs /\ cout = NoError
NextClassify == Classify \/ NextInput
SpecClassify == InitClassify /\ [][NextClassify]_vars

InitAuth == ClientOff /\ ClassifyOff /\ OAuthOff /\ PageOff /\ ToolOff /\ AuthInit
SpecAuth == InitAuth /\ [][AuthNext]_vars

\* the consumer of the generator keeps asking and every fetchPage settles
InitPaginate == ClientOff /\ ClassifyOff /\ OAuthOff /\ AuthOff /\ ToolOff /\ PageInit
SpecPaginate == InitPaginate /\ [][PaginateNext]_vars /\ WF_vars(PaginateNext)

InitTool == ClientOff /\ ClassifyOff /\ OAuthOff /\ AuthOff /\ PageOff /\ ToolInit
SpecTool == InitTool /\ [][ToolNext]_vars

---------------------------------------------------------------------------
(* Claims about one call of request (Spec).                                *)

Fetches == SelectSeq(log, LAMBDA e : e.ev = "fetch")
ResponsesSeen == SelectSeq(log, LAMBDA e : e.ev = "response")
Sleeps == SelectSeq(log, LAMBDA e : e.ev = "sleep")
Sleeping == pc \in {"rateLimitSleep", "backoffSleep"}

IsHttp(e) == e.ev = "response" /\ e.r.kind = "http"
Is4xxNot429(e) == IsHttp(e) /\ e.r.status \in 400..499 /\ e.r.status # 429
Is429(e) == IsHttp(e) /\ e.r.status = 429
Is5xx(e) == IsHttp(e) /\ e.r.status \in 500..599
IsTimeout(e) == e.ev = "response" /\ e.r.kind = "timeout"
IsTransport(e) == e.ev = "response" /\ e.r.kind = "transport"
\* a 2xx response whose body the client can hand back
Is2xxDecodable(e) ==
  /\ IsHttp(e) /\ e.r.status \in 200..299
  /\ (~e.r.contentType \/ e.r.status = 204 \/ e.r.json # Unparseable)
Is2xxUndecodable(e) ==
  /\ IsHttp(e) /\ e.r.status \in 200..299
  /\ e.r.contentType /\ e.r.status # 204 /\ e.r.json = Unparseable
\* what the caller gets for a decodable 2xx response: its JSON body, or an
\* empty object when it declares no content type or is a 204
DecodedBody(r) ==
  IF r.contentType /\ r.status # 204 THEN r.json ELSE EmptyObject
\* the error the classifier gives for a non-2xx response of the call
Classified(r) ==
  parseAPIError(r.status, Url, IF r.json = Unparseable THEN EmptyObject ELSE r.json)

\* C1: a response with a status in [400,500) other than 429 ends the call: it
\* is the last event, the call has failed with the classified error, and when
\* it answers the first attempt there was exactly one HTTP call and no sleep.
C1_ClientErrorNeverRetried ==
  \A i \in DOMAIN log :
    Is4xxNot429(log[i]) =>
      /\ i = Len(log)
      /\ pc = "done"
      /\ outcome = Threw(Classified(log[i].r))
      /\ (Len(ResponsesSeen) = 1 => Len(Fetches) = 1 /\ Sleeps = <<>>)

\* C2: one call of request issues at most maxRetries + 1 HTTP calls, and the
\* sleeps after 429 and after 5xx/transport errors advance the same counter:
\* retryCount is the number of sleeps of either kind that have ended.
C2_AttemptBudget ==
  /\ Len(Fetches) <= maxRetries + 1
  /\ retryCount = Len(Sleeps) - (IF Sleeping THEN 1 ELSE 0)
  /\ \A i \in DOMAIN Fetches : Fetches[i].attempt = i - 1

C2_Witness ==
  /\ pc = "done"
  /\ maxRetries = MaxRetriesBound
  /\ Len(Fetches) = maxRetries + 1
  /\ \E i \in DOMAIN Sleeps : Sleeps[i].kind = "rate_limit"
  /\ \E i \in DOMAIN Sleeps : Sleeps[i].kind = "backoff"

\* C3: with maxRetries >= 1, a 5xx answer to the first attempt is followed by a
\* backoff sleep and a second HTTP call, and when that second call gets a 2xx
\* response the caller receives its decoded body.
C3_ServerErrorThenSuccess ==
  (maxRetries >= 1 /\ Len(ResponsesSeen) >= 1 /\ Is5xx(ResponsesSeen[1])) =>
    /\ Len(log) >= 3 /\ log[1].ev = "fetch" /\ Is5xx(log[2])
    /\ log[3].ev = "sleep" /\ log[3].kind = "backoff" /\ log[3].ms > 0
    /\ (pc # "backoffSleep" => Len(log) >= 4 /\ log[4].ev = "fetch")
    /\ (Len(ResponsesSeen) >= 2 /\ Is2xxDecodable(ResponsesSeen[2]) =>
          /\ pc = "done"
          /\ outcome = Returned(DecodedBody(ResponsesSeen[2].r))
          /\ Len(Fetches) = 2)

C3_Witness ==
  /\ maxRetries >= 1 /\ pc = "done"
  /\ Len(ResponsesSeen) = 2 /\ Is5xx(ResponsesSeen[1])
  /\ ResponsesSeen[2].r = HttpResponse(200, TRUE, Page)
  /\ outcome = Returned(Page)

\* the wait a 429 response asks for, in ms
AskedWait(r) ==
  IF r.json # Unparseable /\ r.json.retry_after # Undef
    THEN r.json.retry_after.v * 1000
    ELSE retryDelay

\* C4 as stated: after the sleep that follows a 429 response the next attempt
\* is issued.
C4_AsStated ==
  \A i \in DOMAIN log :
    Is429(log[i]) /\ ~(pc = "rateLimitSleep" /\ Len(log) = i + 1) =>
      Len(log) >= i + 2 /\ log[i + 2].ev = "fetch"

\* C4 (amended): a 429 response is followed by one sleep of retry_after seconds
\* when the body carries retry_after and of retryDelay ms otherwise, never of
\* retryDelay * 2^attempt; after it the next attempt is issued if the response
\* answered an attempt below maxRetries, and otherwise the call fails with that
\* RateLimitError.  With maxRetries >= 1, a 429 with retry_after 2 and then a
\* 200 give success after exactly one sleep of 2000 ms.
C4_RateLimitWait ==
  /\ \A i \in DOMAIN log :
       Is429(log[i]) =>
         /\ Len(log) >= i + 1
         /\ log[i + 1] = SleepEvent("rate_limit", AskedWait(log[i].r))
         /\ (log[i - 1].attempt >= 1 /\ AskedWait(log[i].r) = retryDelay =>
               log[i + 1].ms # retryDelay * (2 ^ log[i - 1].attempt))
         /\ (~(pc = "rateLimitSleep" /\ Len(log) = i + 1) =>
               IF log[i - 1].attempt < maxRetries
                 THEN Len(log) >= i + 2 /\ log[i + 2].ev = "fetch"
                 ELSE /\ Len(log) = i + 1 /\ pc = "done"
                      /\ outcome = Threw(Classified(log[i].r))
                      /\ outcome.error.name = "RateLimitError")
  /\ (/\ maxRetries >= 1 /\ Len(ResponsesSeen) = 2
      /\ ResponsesSeen[1].r = HttpResponse(429, TRUE, JsonObject(Undef, Undef, Num(2), Undef))
      /\ ResponsesSeen[2].r = HttpResponse(200, TRUE, Page)) =>
       /\ pc = "done" /\ outcome = Returned(Page)
       /\ Sleeps = <<SleepEvent("rate_limit", 2000)>>

C4_Witness ==
  /\ pc = "done" /\ outcome = Returned(Page)
  /\ Len(ResponsesSeen) = 2 /\ Is429(ResponsesSeen[1])
  /\ Sleeps = <<SleepEvent("rate_limit", 2000)>>

\* C5: when the timer of an attempt fires before its response, that is the last
\* event of the call: the call has failed with the timeout error, whose message
\* holds the timeout in ms the attempt was started with, and no HTTP call and no
\* sleep follows.
C5_TimeoutIsFatal ==
  \A i \in DOMAIN log :
    IsTimeout(log[i]) =>
      /\ i = Len(log) /\ pc = "done"
      /\ outcome.kind = "error"
      /\ outcome.error.name = "Error"
      /\ outcome.error.message =
           <<"Request timeout after ", ToString(log[i - 1].timer), "ms">>
      /\ log[i - 1].timer = callTimeout

C5_Witness ==
  /\ pc = "done" /\ Len(Fetches) >= 2 /\ IsTimeout(log[Len(log)])
  /\ callTimeout = 5000

TypedCodes ==
  [AuthenticationError |-> "AUTHENTICATION_ERROR", AuthorizationError |-> "AUTHORIZATION_ERROR",
   NotFoundError |-> "NOT_FOUND", RateLimitError |-> "RATE_LIMIT_ERROR",
   BitbucketAPIError |-> "BITBUCKET_API_ERROR"]
IsTyped(e) == e.name \in DOMAIN TypedCodes /\ e.code = TypedCodes[e.name]
IsExecutorMade(e) ==
  /\ e.name = "Error"
  /\ \/ e.message = <<"Request failed after maximum retries">>
     \/ (Len(e.message) = 3 /\ e.message[1] = "Request timeout after ")

\* C9 as stated, for the errors that come out of executeWithRetry: each is a
\* typed error of the classifier or an error the executor constructs.
C9_AsStated ==
  (pc = "done" /\ outcome.kind = "error" /\ log # <<>>) =>
    IsTyped(outcome.error) \/ IsExecutorMade(outcome.error)

\* C9 (amended): an error request propagates is the provider's own error when
\* getAuthHeader failed (no HTTP call was made), and otherwise goes by the last
\* response of the call: the classified typed error for a non-2xx status, the
\* executor's timeout error for a timeout, and for a transport failure or an
\* undecodable 2xx body the raw exception of that attempt, unchanged, which
\* happens only when no retry is left.
C9_PropagatedErrors ==
  (pc = "done" /\ outcome.kind = "error") =>
    IF log = <<>>
      THEN outcome.error \in AuthFailures
      ELSE LET last == ResponsesSeen[Len(ResponsesSeen)]
               e == outcome.error
           IN  /\ IsHttp(last) /\ ~(last.r.status \in 200..299) =>
                    e = Classified(last.r) /\ IsTyped(e)
               /\ IsTimeout(last) => IsExecutorMade(e)
               /\ IsTransport(last) =>
                    e = TransportError /\ retryCount = maxRetries /\ ~IsTyped(e)
               /\ Is2xxUndecodable(last) =>
                    e = SyntaxError /\ retryCount = maxRetries /\ ~IsTyped(e)
               /\ ~Is2xxDecodable(last)

C9_Witness ==
  /\ pc = "done" /\ outcome = Threw(TransportError)
  /\ maxRetries >= 1 /\ Len(Fetches) = maxRetries + 1

---------------------------------------------------------------------------
(* Claims about the OAuth provider (SpecOAuth).                            *)

\* task t starts getAuthHeader or validate in this step, which runs
\* ensureValidToken
EnsureStarts(t) ==
  task[t].pc = "idle" /\ task'[t].op \in {"getAuthHeader", "validate"}
GetAuthHeaderStarts(t) == task[t].pc = "idle" /\ task'[t].op = "getAuthHeader"

NoTokenEndpointCall(t) ==
  task'[t].pc = "ensured" /\ task'[t].calls = 0
Exchange(t, grant) ==
  task'[t].pc = "exchange" /\ task'[t].calls = 1 /\ task'[t].branch = grant

RefreshTokenOnly(c) ==
  c.clientId = Str(<<>>) /\ c.clientSecret = Str(<<>>) /\ c.refreshToken # Undef
    /\ c.accessToken = Undef
NoClientCredentials(c) == c.clientId = Str(<<>>) /\ c.clientSecret = Str(<<>>)

\* what C6 says of the calls of getAuthHeader: none makes more than one call of
\* the token endpoint; a call made at the time of an exchange that returned
\* expires_in 3600 makes none and returns the stored token; a call made when the
\* stored expiry has passed makes exactly one, a refresh_token exchange
ReuseThenRefresh ==
  \A t \in Tasks :
    /\ task'[t].calls <= 1
    /\ (task[t].pc = "exchange" => task'[t].calls = 1)
    /\ (GetAuthHeaderStarts(t) /\ accessToken # Undef /\ tokenExpiry = Num(now + 3300)) =>
         NoTokenEndpointCall(t)
    /\ (task[t].op = "getAuthHeader" /\ task[t].pc = "ensured" /\ task'[t].pc = "done") =>
         task'[t].result = Returned(<<"Bearer ">> \o accessToken.v)
    /\ (GetAuthHeaderStarts(t) /\ tokenExpiry # Undef /\ now >= tokenExpiry.v) =>
         Exchange(t, "refresh_token")

\* C6 as stated: a provider can be given a refreshToken only (no client id and
\* secret, no access token), and then reuses the token got with expires_in 3600
\* at once and refreshes it exactly once after its expiry.
C6_AsStated ==
  [][RefreshTokenOnly(ocfg) => built' # "threw" /\ ReuseThenRefresh]_vars

\* C6 (amended): the constructor rejects a config with a refreshToken only; for
\* a provider given an access token and a refreshToken (no client id and
\* secret), a getAuthHeader made at the time of an exchange that returned
\* expires_in 3600 makes no token-endpoint call and returns the stored token,
\* and one made after the stored expiry makes exactly one refresh call.
C6_CachedThenRefreshed ==
  [][/\ RefreshTokenOnly(ocfg) => built' # "ok"
     /\ (NoClientCredentials(ocfg) /\ ocfg.refreshToken # Undef /\ ocfg.accessToken # Undef) =>
          built' # "threw" /\ ReuseThenRefresh]_vars

C6_Witness ==
  /\ NoClientCredentials(ocfg) /\ ocfg.refreshToken # Undef /\ built = "ok"
  /\ tokenExpiry = Num(now + 3300)
  /\ \E t \in Tasks :
       /\ task[t].op = "getAuthHeader" /\ task[t].pc = "done"
       /\ task[t].branch = "cached" /\ task[t].calls = 0
       /\ task[t].result = Returned(<<"Bearer ">> \o accessToken.v)

\* the first branch of the five whose condition holds, given the condition
\* of the first
BranchOrder(first) ==
  IF first THEN "cached"
  ELSE IF refreshToken # Undef THEN "refresh_token"
  ELSE IF ocfg.clientId # Str(<<>>) /\ ocfg.clientSecret # Str(<<>>) THEN "client_credentials"
  ELSE IF accessToken # Undef /\ tokenExpiry = Undef THEN "bare"
  ELSE "none"

BranchTaken(t, b) ==
  /\ b \in {"cached", "bare"} => NoTokenEndpointCall(t)
  /\ b \in {"refresh_token", "client_credentials"} => Exchange(t, b)
  /\ b = "none" =>
       /\ task'[t].pc = "failed" /\ task'[t].calls = 0
       /\ task'[t].result.kind = "error"
       /\ task'[t].result.error.name = "AuthenticationError"
  /\ b # "cached" => task'[t].branch = b

\* C7 as stated: branch (1), no token-endpoint call, is taken when an access
\* token exists and its expiry, if tracked, is in the future.
C7_AsStated ==
  [][\A t \in Tasks :
       EnsureStarts(t) =>
         BranchTaken(t, BranchOrder(accessToken # Undef /\
                                    (tokenExpiry # Undef => now < tokenExpiry.v)))]_vars

\* C7 (amended): ensureValidToken takes the first applicable branch of:
\* (1) an access token exists and its expiry is tracked and in the future: no
\* token-endpoint call; (2) a refresh token exists: refresh_token grant;
\* (3) client id and secret exist: client_credentials grant; (4) an access
\* token exists with no expiry info: trusted, no call; (5) AuthenticationError.
C7_BranchOrder ==
  [][\A t \in Tasks :
       EnsureStarts(t) =>
         /\ BranchTaken(t, BranchOrder(accessToken # Undef /\ tokenExpiry # Undef /\
                                       now < tokenExpiry.v))
         /\ task'[t].branch =
              BranchOrder(accessToken # Undef /\ tokenExpiry # Undef /\ now < tokenExpiry.v)]_vars

C7_Witness ==
  /\ accessToken # Undef /\ tokenExpiry = Undef
  /\ \E t \in Tasks :
       /\ task[t].op = "getAuthHeader" /\ task[t].pc = "exchange"
       /\ task[t].branch = "refresh_token"

\* C8: at most one token-endpoint exchange is in flight at any time.
C8_SingleFlight ==
  Cardinality({t \in Tasks : task[t].pc = "exchange"}) <= 1

---------------------------------------------------------------------------
(* Claims about parseAPIError (SpecClassify).                              *)

\* C10: every error parseAPIError returns carries a non-empty message and the
\* fixed code of its class.
C10_MessageAndCode ==
  cout # NoError =>
    /\ cout.message # <<>>
    /\ cout.name \in DOMAIN TypedCodes
    /\ cout.code = TypedCodes[cout.name]

\* s occurs in t as a run of consecutive pieces
IsInfix(s, t) ==
  \E i \in 0..(Len(t) - Len(s)) : \A k \in 1..Len(s) : t[i + k] = s[k]

\* C12: the status code selects the error class for every endpoint and body:
\* 401 AuthenticationError, 403 AuthorizationError, 404 a NotFoundError whose
\* message contains the endpoint, 429 a RateLimitError whose retryAfter is
\* body.retry_after when present and undefined otherwise, any other status a
\* BitbucketAPIError carrying that status code.
C12_StatusSelectsClass ==
  cout # NoError =>
    CASE cin.statusCode = 401 -> cout.name = "AuthenticationError"
      [] cin.statusCode = 403 -> cout.name = "AuthorizationError"
      [] cin.statusCode = 404 ->
           cout.name = "NotFoundError" /\ IsInfix(cin.endpoint, cout.message)
      [] cin.statusCode = 429 ->
           /\ cout.name = "RateLimitError"
           /\ cout.retryAfter =
                (IF cin.body.kind = "object" THEN cin.body.retry_after ELSE Undef)
      [] OTHER ->
           cout.name = "BitbucketAPIError" /\ cout.statusCode = cin.statusCode

C12_Witness ==
  /\ cout # NoError
  /\ cin.statusCode = 429 /\ cin.body.kind = "object"
  /\ cin.body.retry_after = Num(30)
  /\ cout.name = "RateLimitError" /\ cout.retryAfter = Num(30)

\* C13: parseAPIError never throws: for every status code and every body (an
\* object, an empty object, null, undefined, a plain string, an error field
\* that is not an object) the call returns an error value.
C13_NeverThrows ==
  cout # NoError => cout # TypeError /\ cout.name \in DOMAIN TypedCodes

C13_Witness ==
  /\ cout # NoError
  /\ cin.body.kind \in {"null", "undefined"}
  /\ cout.name = "BitbucketAPIError"

---------------------------------------------------------------------------
(* Claims about the auth providers and createAuthProvider (SpecAuth).      *)

Constructors ==
  {"ApiTokenAuthProvider", "AccessTokenAuthProvider", "BasicAuthProvider", "OAuth2AuthProvider"}

\* the required credentials of the constructor call in pin are all there
AllPresent ==
  CASE pin.call = "ApiTokenAuthProvider" ->
         Truthy(pin.config.token) /\ Truthy(pin.config.userEmail)
    [] pin.call = "AccessTokenAuthProvider" -> Truthy(pin.config.token)
    [] pin.call = "BasicAuthProvider" ->
         Truthy(pin.config.username) /\ Truthy(pin.config.password)
    [] pin.call = "OAuth2AuthProvider" ->
         \/ Truthy(pin.config.clientId) /\ Truthy(pin.config.clientSecret)
         \/ Truthy(pin.config.accessToken)

\* the names of the credentials the constructor call in pin lacks
MissingNames ==
  CASE pin.call = "ApiTokenAuthProvider" ->
         (IF Truthy(pin.config.token) THEN {} ELSE {"API token"})
           \cup (IF Truthy(pin.config.userEmail) THEN {} ELSE {"User email"})
    [] pin.call = "AccessTokenAuthProvider" -> {"access token"}
    [] pin.call = "BasicAuthProvider" ->
         (IF Truthy(pin.config.username) THEN {} ELSE {"Username"})
           \cup (IF Truthy(pin.config.password) THEN {} ELSE {"Password"})
    [] pin.call = "OAuth2AuthProvider" ->
         (IF Truthy(pin.config.clientId) /\ Truthy(pin.config.clientSecret)
            THEN {} ELSE {"client credentials"})
           \cup (IF Truthy(pin.config.accessToken) THEN {} ELSE {"access token"})

B64Index(c) == CHOOSE i \in 0..63 : B64(i) = c

\* the bytes a base64 text stands for
RECURSIVE Base64Decode(_)
Base64Decode(cs) ==
  IF Len(cs) = 0 THEN <<>>
  ELSE LET a == B64Index(cs[1])
           b == B64Index(cs[2])
           c == B64Index(cs[3])
           d == B64Index(cs[4])
       IN  IF cs[3] = "=" THEN <<a * 4 + b \div 16>>
           ELSE IF cs[4] = "=" THEN <<a * 4 + b \div 16, (b % 16) * 16 + c \div 4>>
           ELSE <<a * 4 + b \div 16, (b % 16) * 16 + c \div 4, (c % 4) * 64 + d>>
                  \o Base64Decode(SubSeq(cs, 5, Len(cs)))

\* the email and the token the call in pin gave the api_token provider
GivenEmail == pin.config.userEmail.v
GivenToken ==
  IF pin.call = "createAuthProvider" THEN pin.config.apiToken.v ELSE pin.config.token.v

\* C16: for every valid (email, token) pair, every getAuthHeader call of the
\* email+token provider returns "Basic " followed by the base64 encoding of
\* email + ":" + token (decoding it gives those bytes back), the same value
\* on every call.
C16_BasicHeader ==
  prov.class = "ApiTokenAuthProvider" =>
    \A i \in 1..Len(hdrs) :
      /\ hdrs[i] = <<"Basic ">> \o Base64(Bytes(GivenEmail \o <<":">> \o GivenToken))
      /\ Base64Decode(Tail(hdrs[i])) = Bytes(GivenEmail \o <<":">> \o GivenToken)
      /\ hdrs[i] = hdrs[1]

C16_Witness ==
  /\ pin.call = "ApiTokenAuthProvider"
  /\ pin.config.userEmail = Str(<<"a", "@">>) /\ pin.config.token = Str(<<":", "1">>)
  /\ Len(hdrs) = 2
  /\ hdrs[2] = <<"Basic ", "Y", "U", "A", "6", "O", "j", "E", "=">>

---------------------------------------------------------------------------
(* Claims about pagination (SpecPaginate).                                 *)

\* what holds of the batches at every moment of a walk
BatchesInOrder ==
  LET n == Len(yielded)
  IN  /\ n <= maxPagesOf(popts)
      /\ Len(fetched) = n + (IF gpc \in {"fetching", "threw"} THEN 1 ELSE 0)
      /\ \A i \in 1..Len(fetched) :
           /\ fetched[i].page = firstPageOf(popts) + i - 1
           /\ fetched[i].pagelen <= MAX_PAGE_LENGTH
      /\ \A i \in 1..n : yielded[i].page = fetched[i].page
      /\ \A i \in 1..(n - 1) : yielded[i].next
      /\ gpc = "fetching" => n < maxPagesOf(popts)
      /\ gpc = "done" => (n = maxPagesOf(popts) \/ (n > 0 /\ ~yielded[n].next))

\* C14: paginateResults fetches and yields one batch per page until the
\* first response without a next link or until maxPages (default 10)
\* batches were yielded, whichever comes first, and then terminates; it
\* never yields more than maxPages batches.
C14_PagesUntilNoNext ==
  /\ []BatchesInOrder
  /\ <>(gpc \in {"done", "threw"})

C14_Witness ==
  /\ popts # Undef /\ popts.maxPages = Undef
  /\ gpc = "done"
  /\ Len(yielded) = 2 /\ yielded[1].next /\ ~yielded[2].next

\* C15: buildPaginationParams returns pagelen = min(requested pagelen or 25,
\* 100) as a string, and a page key exactly when the caller gave a page.
C15_PaginationParams ==
  params # NoParams =>
    LET requested == IF Option(popts, "pagelen") = Undef
                       THEN 25 ELSE Option(popts, "pagelen").v
    IN  /\ params.pagelen = <<ToString(IF requested > 100 THEN 100 ELSE requested)>>
        /\ ("page" \in DOMAIN params) <=> (Option(popts, "page") # Undef)
        /\ "page" \in DOMAIN params => params.page = <<ToString(Option(popts, "page").v)>>

---------------------------------------------------------------------------
(* Claims about the token exchanges of the OAuth provider (SpecOAuth).     *)

\* C18: after every successful token-endpoint exchange accessToken is the
\* returned access_token; refreshToken is the returned refresh_token if one
\* was returned and unchanged otherwise; tokenExpiry is now + (expires_in -
\* 300) seconds if expires_in was returned and unchanged otherwise.
C18_UpdateTokens ==
  [][\A t \in Tasks :
       (task[t].pc = "exchange" /\ task'[t].pc = "ensured") =>
         LET data == task'[t].data
         IN  /\ accessToken' = data.access_token
             /\ refreshToken' =
                  (IF data.refresh_token # Undef THEN data.refresh_token ELSE refreshToken)
             /\ tokenExpiry' =
                  (IF data.expires_in # Undef
                     THEN Num(now + (data.expires_in.v - 300)) ELSE tokenExpiry)]_vars

\* task t's exchange was answered with a non-2xx status
AnsweredNon2xx(t) == task[t].data # NoResponse /\ ~task[t].data.ok

\* C19: when the token endpoint answers an exchange with a non-2xx status,
\* the operation that triggered it (getAuthHeader or refresh) fails with an
\* AuthenticationError whose message contains the response body text, and
\* the operation makes no further exchange.
C19_ExchangeFailure ==
  \A t \in Tasks :
    (task[t].op \in {"getAuthHeader", "refresh"} /\ AnsweredNon2xx(t)) =>
      /\ task[t].pc \in {"failed", "done"}
      /\ task[t].calls = 1
      /\ task[t].result.kind = "error"
      /\ task[t].result.error.name = "AuthenticationError"
      /\ IsInfix(task[t].data.text, task[t].result.error.message)

C19_Witness ==
  \E t \in Tasks :
    /\ task[t].op = "getAuthHeader" /\ task[t].branch = "client_credentials"
    /\ AnsweredNon2xx(t) /\ task[t].pc = "done"
    /\ task[t].result.error.message =
         <<"Failed to obtain OAuth token: ", "invalid_grant">>

---------------------------------------------------------------------------
(* Claims about the bitbucket_pull_requests handler (SpecTool).            *)

\* the parameters the README lists as required for the action, beyond
\* workspace and repo_slug
ReadmeRequired(action) ==
  CASE action = "list" -> {}
    [] action = "create" -> {"title", "source_branch"}
    [] action = "add_comment" -> {"pr_id", "content"}
    [] OTHER -> {"pr_id"}

MissingRequired == {f \in ReadmeRequired(tparams.action) : tparams[f] = Undef}
\* the required parameters that are missing, or given as 0 or ''
Lacking == {f \in ReadmeRequired(tparams.action) : ~Truthy(tparams[f])}

---------------------------------------------------------------------------
(* Claims about the retry loop of one call of request (Spec).              *)

\* an attempt that failed with a transport error or a 5xx response
IsRetryableFailure(e) == IsTransport(e) \/ Is5xx(e)
\* the error such an attempt leaves in the catch block
AttemptError(e) == IF IsTransport(e) THEN TransportError ELSE Classified(e.r)

\* C21: attempts are numbered from 0.  When attempt a fails with a transport
\* error or a 5xx response and a < maxRetries, the next event is a backoff sleep
\* of retryDelay * 2^a ms, after which attempt a + 1 is issued; when
\* a = maxRetries the call ends there, without a sleep, with the error of that
\* attempt.  A call that only sees such failures sleeps retryDelay,
\* 2 * retryDelay, 4 * retryDelay, ...
C21_ExponentialBackoff ==
  /\ \A k \in DOMAIN Fetches : Fetches[k].attempt = k - 1
  /\ \A i \in DOMAIN log :
       IsRetryableFailure(log[i]) =>
         /\ i > 1 /\ log[i-1].ev = "fetch"
         /\ LET attempt == log[i-1].attempt IN
              /\ attempt < maxRetries =>
                   /\ Len(log) > i
                   /\ log[i+1] = SleepEvent("backoff", retryDelay * (2 ^ attempt))
                   /\ (Len(log) = i + 1 => pc = "backoffSleep")
                   /\ (Len(log) > i + 1 =>
                         log[i+2].ev = "fetch" /\ log[i+2].attempt = attempt + 1)
              /\ attempt >= maxRetries =>
                   /\ attempt = maxRetries
                   /\ i = Len(log) /\ pc = "done"
                   /\ outcome = Threw(AttemptError(log[i]))
  /\ (\A j \in DOMAIN ResponsesSeen : IsRetryableFailure(ResponsesSeen[j])) =>
       \A k \in DOMAIN Sleeps :
         Sleeps[k] = SleepEvent("backoff", retryDelay * (2 ^ (k - 1)))

C21_Witness ==
  /\ maxRetries = 3 /\ pc = "done"
  /\ Len(ResponsesSeen) = 4
  /\ \A j \in 1..4 : IsRetryableFailure(ResponsesSeen[j])
  /\ Is5xx(ResponsesSeen[1]) /\ IsTransport(ResponsesSeen[4])
  /\ Len(Sleeps) = 3 /\ Sleeps[3].ms = 4 * retryDelay
  /\ outcome = Threw(TransportError)

\* C22: a call whose attempts all receive 429 makes maxRetries + 1 HTTP calls
\* and then fails with the RateLimitError of its last attempt; a call fails with
\* a RateLimitError only when the budget of maxRetries + 1 HTTP calls is used
\* up, and a 429 that answers an attempt below maxRetries is followed by a sleep
\* and the next attempt.
C22_RateLimitExhaustsBudget ==
  /\ (ResponsesSeen # <<>> /\ \A j \in DOMAIN ResponsesSeen : Is429(ResponsesSeen[j])) =>
       /\ Len(Fetches) <= maxRetries + 1
       /\ pc = "done" =>
            /\ Len(Fetches) = maxRetries + 1
            /\ Len(ResponsesSeen) = maxRetries + 1
            /\ outcome = Threw(Classified(ResponsesSeen[Len(ResponsesSeen)].r))
            /\ outcome.error.name = "RateLimitError"
  /\ (outcome.kind = "error" /\ outcome.error.name = "RateLimitError") =>
       /\ Len(Fetches) = maxRetries + 1
       /\ Is429(ResponsesSeen[Len(ResponsesSeen)])
  /\ \A i \in DOMAIN log :
       (Is429(log[i]) /\ log[i-1].attempt < maxRetries) =>
         /\ Len(log) > i /\ log[i+1].ev = "sleep"
         /\ (Len(log) = i + 1 => pc = "rateLimitSleep" /\ outcome = NoOutcome)
         /\ (Len(log) > i + 1 => log[i+2].ev = "fetch")

C22_Witness ==
  /\ maxRetries = 2 /\ pc = "done"
  /\ Len(Fetches) = 3 /\ Len(ResponsesSeen) = 3
  /\ \A j \in 1..3 : Is429(ResponsesSeen[j])
  /\ ResponsesSeen[2].r = HttpResponse(429, TRUE, JsonObject(Undef, Undef, Num(2), Undef))
  /\ ResponsesSeen[3].r = HttpResponse(429, TRUE, JsonObject(Undef, Undef, Num(0), Undef))
  /\ outcome = Threw(RateLimitError(Num(0)))

\* the timer of every attempt issued so far was started with the full timeout
\* of the call, the attempt in flight has its own timer pending, and a call
\* that failed with the timeout error ended on the timeout of an attempt
FullTimers ==
  /\ \A k \in DOMAIN Fetches : Fetches[k].timer = callTimeout
  /\ \A tm \in timers : tm.ms = callTimeout
  /\ pc = "fetching" => Timer(retryCount, callTimeout) \in timers
  /\ pc # "idle" => callTimeout \in {timeout} \cup {t.v : t \in TimeoutOptions \ {Undef}}
  /\ outcome = Threw(timeoutError) => IsTimeout(log[Len(log)])

\* C23: the timeout governs one HTTP attempt.  Every attempt starts a timer of
\* its own with the full timeout of the call (the per-call override, else the
\* configured default), whatever time earlier attempts and sleeps took; a call
\* fails with the timeout error only in a step where the timer of the attempt
\* in flight fires, and a timer of an earlier attempt that fires later changes
\* nothing of the call.
C23_TimeoutPerAttempt ==
  [][ /\ FullTimers'
      /\ (outcome' # outcome /\ outcome' = Threw(timeoutError)) =>
           /\ pc = "fetching"
           /\ Timer(retryCount, callTimeout) \in timers
           /\ timers' = timers \ {Timer(retryCount, callTimeout)}
      /\ (\E tm \in timers \ timers' : tm.attempt # retryCount \/ pc # "fetching") =>
           UNCHANGED <<pc, retryCount, lastError, heldError, log, outcome>>
    ]_vars

\* a fourth attempt in flight with the full 5000 ms after 7000 ms of backoff
\* and the timer of a failed attempt still pending
C23_Witness ==
  /\ callTimeout = 5000 /\ timeout = DefaultTimeout /\ retryDelay = 1000
  /\ pc = "fetching" /\ retryCount = 3
  /\ Len(Fetches) = 4 /\ Fetches[4].timer = 5000
  /\ SleptMs(log) = 7000
  /\ IsTransport(ResponsesSeen[1])
  /\ timers = {Timer(0, 5000), Timer(3, 5000)}
  /\ outcome = NoOutcome

\* the events of the call come in rounds of fetch, response, sleep
RoundOf(i) == (i - 1) \div 3
PlaceOf(i) == (i - 1) % 3

\* C24: the attempts of one call are sequential in increasing attempt number.
\* An attempt is issued only when every earlier attempt has been answered (by a
\* response, a rejection or its timeout), so at most one is in flight, and
\* between two consecutive attempts exactly one sleep, a rate-limit wait or a
\* backoff, has been started and has ended.
C24_SequentialAttempts ==
  /\ \A i \in DOMAIN log :
       /\ PlaceOf(i) = 0 => log[i].ev = "fetch" /\ log[i].attempt = RoundOf(i)
       /\ PlaceOf(i) = 1 => log[i].ev = "response"
       /\ PlaceOf(i) = 2 => log[i].ev = "sleep" /\ log[i].kind \in {"rate_limit", "backoff"}
  /\ Len(Fetches) - Len(ResponsesSeen) \in {0, 1}
  /\ (Len(Fetches) - Len(ResponsesSeen) = 1) <=> (pc = "fetching")
  /\ pc = "fetching" => log[Len(log)].ev = "fetch" /\ retryCount = Len(Fetches) - 1
  /\ Sleeping => log[Len(log)].ev = "sleep"
  /\ (log # <<>> /\ log[Len(log)].ev = "sleep") => Sleeping \/ pc = "done"
  /\ \A k \in DOMAIN Fetches : k > 1 => Len(Sleeps) >= k - 1

C24_Witness ==
  /\ maxRetries = 3 /\ pc = "done" /\ Len(log) = 11
  /\ Is429(log[2]) /\ log[3].kind = "rate_limit"
  /\ Is5xx(log[5]) /\ log[6].kind = "backoff"
  /\ IsTransport(log[8]) /\ log[9].kind = "backoff"
  /\ log[10].ev = "fetch" /\ log[10].attempt = 3
  /\ log[11].r = HttpResponse(200, TRUE, Page)
  /\ outcome = Returned(Page)

\* C27: request gets the header from the provider once, in the step that ends
\* its await of getAuthHeader, before any HTTP attempt; after that the header
\* of the call never changes, and every attempt, retries included, is sent
\* with that Authorization value.  (The call is made without an Authorization
\* entry in options.headers, as get, post, put, patch and delete make it.)
C27_OneHeaderPerCall ==
  [][ /\ \A k \in DOMAIN Fetches' : Fetches'[k].auth = authHeader'
      /\ Fetches' # <<>> => authHeader' \in AuthHeaders
      /\ authHeader' # authHeader =>
           /\ pc = "auth" /\ authHeader = <<>> /\ log = <<>>
           /\ pc' = "fetching" /\ Len(log') = 1
      /\ pc' = "auth" => pc = "idle"
    ]_vars

C27_Witness ==
  /\ maxRetries = 3 /\ pc = "done"
  /\ authHeader = <<"Bearer ", "t1">>
  /\ Len(Fetches) = 4
  /\ \A k \in 1..4 : Fetches[k].auth = <<"Bearer ", "t1">>
  /\ Is429(ResponsesSeen[1]) /\ IsTransport(ResponsesSeen[2]) /\ Is5xx(ResponsesSeen[3])
  /\ ResponsesSeen[4].r.status = 401

---------------------------------------------------------------------------
(* Claims about refresh and the token state of the OAuth provider          *)
(* (SpecOAuth).                                                            *)

\* task t calls refresh in this step
RefreshStarts(t) ==
  task[t].pc = "idle" /\ task'[t].pc # "idle" /\ task'[t].op = "refresh"

\* C25: refresh goes to the token endpoint whatever the current token and its
\* expiry: with the refresh_token grant when a refresh token is stored, else
\* with the client_credentials grant when client id and secret are set, and
\* else it fails with AuthenticationError without a token-endpoint call.  A
\* refresh that succeeded has completed exactly one exchange.
C25_RefreshAlwaysExchanges ==
  [][\A t \in Tasks :
       /\ RefreshStarts(t) =>
            /\ Truthy(refreshToken) =>
                 /\ task'[t].pc = "exchange" /\ task'[t].calls = 1
                 /\ task'[t].branch = "refresh_token"
            /\ (~Truthy(refreshToken) /\ hasClientCredentials) =>
                 /\ task'[t].pc = "exchange" /\ task'[t].calls = 1
                 /\ task'[t].branch = "client_credentials"
            /\ (~Truthy(refreshToken) /\ ~hasClientCredentials) =>
                 /\ task'[t].pc = "failed" /\ task'[t].calls = 0
                 /\ task'[t].result = Threw(AuthenticationError(CannotRefresh))
       /\ (task'[t].op = "refresh" /\ task'[t].pc = "done"
             /\ task'[t].result.kind = "value") => task'[t].calls = 1
    ]_vars

\* a refresh in its exchange although the stored token is still valid
C25_Witness ==
  /\ tokenIsValid /\ ~Truthy(refreshToken) /\ hasClientCredentials
  /\ task["t1"].op = "refresh" /\ task["t1"].pc = "exchange"
  /\ task["t1"].branch = "client_credentials" /\ task["t1"].calls = 1
  /\ task["t2"] = NoTask

\* the token endpoint answers task t's exchange with a non-2xx status in this
\* step
ExchangeFails(t) ==
  /\ task[t].pc = "exchange" /\ task'[t].pc = "failed"
  /\ ~task'[t].data.ok /\ task'[t].data.text # <<>>

\* the operation of task t that failed on a non-2xx answer is left in this step
FailureSettles(t) ==
  /\ task[t].pc = "failed" /\ task'[t].pc = "done"
  /\ ~task[t].data.ok /\ task[t].data.text # <<>>

\* C28: a token-endpoint exchange that is answered with a non-2xx status
\* leaves accessToken, refreshToken and tokenExpiry as they are, in the step
\* that receives the answer and in the step that leaves the operation, so
\* ensureValidToken and refresh take the same branch after it as before it; as
\* long as no exchange of the provider has succeeded, that is the branch the
\* failed operation took.
C28_FailedExchangeKeepsTokens ==
  [][\A t \in Tasks :
       /\ (ExchangeFails(t) \/ FailureSettles(t)) =>
            /\ UNCHANGED <<accessToken, refreshToken, tokenExpiry>>
            /\ ensureValidTokenBranch' = ensureValidTokenBranch
            /\ refreshBranch' = refreshBranch
       /\ (ExchangeFails(t) /\ accessToken = ocfg.accessToken /\ tokenExpiry = Undef
             /\ refreshToken = ocfg.refreshToken) =>
            IF task[t].op = "refresh" THEN refreshBranch' = task[t].branch
            ELSE ensureValidTokenBranch' = task[t].branch
    ]_vars

\* a refresh_token exchange fails after an earlier exchange had stored a1, r1
\* and an expiry that has passed meanwhile: all three are still there
C28_Witness ==
  /\ accessToken = Str(<<"a1">>) /\ refreshToken = Str(<<"r1">>)
  /\ tokenExpiry = Num(3300) /\ now = 3300
  /\ task["t1"].op = "getAuthHeader" /\ task["t1"].pc = "done"
  /\ task["t1"].branch = "refresh_token"
  /\ task["t1"].data = [ok |-> FALSE, text |-> <<"invalid_grant">>]
  /\ task["t1"].result =
       Threw(AuthenticationError(<<"Failed to refresh OAuth token: ", "invalid_grant">>))
  /\ task["t2"] = NoTask
  /\ ensureValidTokenBranch = "refresh_token"

\* the tracked expiry has passed
ExpiryPassed == tokenExpiry # Undef /\ ~(now < tokenExpiry.v)

\* task t calls getAuthHeader in this step
HeaderStarts(t) ==
  task[t].pc = "idle" /\ task'[t].pc # "idle" /\ task'[t].op = "getAuthHeader"

\* C29: an expiry is tracked only when a refresh token or client credentials
\* exist.  So a getAuthHeader called when the tracked expiry has passed goes to
\* the token endpoint, and returns a header only after that exchange has
\* succeeded; it trusts the bare token only while no expiry is tracked, and it
\* returns the stored token without an exchange only when it found the tracked
\* expiry in the future or no expiry tracked.
C29_ExpiredTokenIsExchanged ==
  [][/\ (tokenExpiry' # Undef) => (Truthy(refreshToken') \/ hasClientCredentials')
     /\ \A t \in Tasks :
          /\ HeaderStarts(t) =>
               /\ ExpiryPassed =>
                    /\ task'[t].pc = "exchange" /\ task'[t].calls = 1
                    /\ task'[t].branch \in {"refresh_token", "client_credentials"}
               /\ task'[t].branch = "bare" => tokenExpiry = Undef
               /\ task'[t].branch = "cached" => tokenExpiry # Undef /\ now < tokenExpiry.v
          /\ (task'[t].op = "getAuthHeader" /\ task'[t].pc = "done"
                /\ task'[t].result.kind = "value") =>
               \/ task'[t].calls = 1
                    /\ task'[t].branch \in {"refresh_token", "client_credentials"}
               \/ task'[t].calls = 0 /\ task'[t].branch \in {"cached", "bare"}
          /\ (task[t].op = "getAuthHeader" /\ task[t].pc = "exchange"
                /\ task'[t].pc = "ensured") => task'[t].data.ok
    ]_vars

\* after an exchange whose token has expired, getAuthHeader is in a second
\* exchange; and a provider that only has an access token trusts it
C29_Witness ==
  /\ ExpiryPassed /\ accessToken = Str(<<"a1">>)
  /\ task["t1"].op = "getAuthHeader" /\ task["t1"].pc = "exchange"
  /\ task["t1"].calls = 1 /\ task["t2"] = NoTask

C29_WitnessBare ==
  /\ tokenExpiry = Undef /\ ~Truthy(refreshToken) /\ ~hasClientCredentials
  /\ task["t1"].op = "getAuthHeader" /\ task["t1"].pc = "done"
  /\ task["t1"].branch = "bare"
  /\ task["t1"].result = Returned(<<"Bearer ", "a0">>)

---------------------------------------------------------------------------
(* Claims about the fetchPage calls of paginateResults (SpecPaginate).     *)

\* the page the walk starts at and the pagelen it asks for, from the options
\* the caller gave
StartPage == IF Option(popts, "page") = Undef THEN 1 ELSE Option(popts, "page").v
WalkPagelen ==
  LET requested == IF Option(popts, "pagelen") = Undef
                     THEN 25 ELSE Option(popts, "pagelen").v
  IN  IF requested > 100 THEN 100 ELSE requested

\* C26: the fetchPage calls of one walk have the page numbers start,
\* start + 1, start + 2, ... with start = options.page when given and 1
\* otherwise, and all have the pagelen min(options.pagelen when given and 25
\* otherwise, 100); a call is made only when every earlier one has resolved and
\* its batch was yielded, so at most one is outstanding.
C26_ConsecutivePages ==
  /\ \A i \in DOMAIN fetched :
       /\ fetched[i].page = StartPage + i - 1
       /\ fetched[i].pagelen = WalkPagelen
  /\ Len(fetched) - Len(yielded) \in {0, 1}
  /\ (Len(fetched) - Len(yielded) = 1) <=> (gpc \in {"fetching", "threw"})
  /\ gpc = "new" => fetched = <<>>

C26_Witness ==
  /\ popts # Undef /\ popts.page = Num(3) /\ popts.pagelen = Num(200)
  /\ gpc = "fetching"
  /\ fetched = <<[page |-> 3, pagelen |-> 100], [page |-> 4, pagelen |-> 100],
                 [page |-> 5, pagelen |-> 100]>>
  /\ Len(yielded) = 2

---------------------------------------------------------------------------
(* Claims about validateAuthConfig and createAuthProvider (SpecAuth).      *)

C30_WitnessRejected ==
  /\ pin.call = "createAuthProvider" /\ pin.config.authMethod = "api_token"
  /\ pin.config.apiToken = Str(<<"a", "1">>) /\ pin.config.userEmail = Str(<<>>)
  /\ checked.class = "threw" /\ prov.class = "threw"
  /\ prov.error.name = "ConfigurationError"

====
